---- MODULE Spec2Model ----
(***************************************************************************)
(* openapi-client-axios: the OpenAPIClientAxios class (client.ts) as a     *)
(* state machine.  The state is the fields of one OpenAPIClientAxios       *)
(* object together with the axios instance it owns; the actions are its    *)
(* public methods and the operation methods it attaches to the instance.   *)
(*                                                                         *)
(* JavaScript values are tagged records: [num |-> n], [str |-> s],         *)
(* [undef |-> TRUE], [null |-> TRUE], [arr |-> <<...>>].  A string is a    *)
(* sequence of symbols; a symbol is one character or one run of unreserved *)
(* characters, and "{" and "}" are the symbols that delimit a template     *)
(* token.  A thrown error is [throw |-> kind].                             *)
(***************************************************************************)
EXTENDS Integers, Sequences, FiniteSets

VARIABLES
    inputDocument,             \* this.inputDocument
    definition,                \* this.definition (Undefined before init)
    initialized,               \* this.initialized
    instance,                  \* this.instance: the axios instance, or Undefined
    axiosConfigDefaults,       \* this.axiosConfigDefaults
    defaultServer,             \* this.defaultServer
    baseURLVariables,          \* this.baseURLVariables
    applyMethodCommonHeaders,  \* this.applyMethodCommonHeaders
    runners,                   \* this.runners
    document,                  \* this.document (Undefined before it is loaded)
    transformOperationName,    \* this.transformOperationName
    pendingInits,              \* init() calls suspended at await this.loadDocument()
    kept,                      \* a descriptor the caller holds on to for comparison
    instancesCreated,          \* the number of axios.create calls of the client so far
    inFlight,                  \* the operation-method invocation whose runner has not settled
    last                       \* the most recent call on the client and its outcome

vars == <<inputDocument, definition, initialized, instance, axiosConfigDefaults,
          defaultServer, baseURLVariables, applyMethodCommonHeaders, runners,
          document, transformOperationName, pendingInits, kept, instancesCreated,
          inFlight, last>>

----------------------------------------------------------------------------
(* Bounds *)

\* largest number a caller passes as a parameter value
MaxNum == 1
\* largest number of entries of a params array / keys of a params object
MaxParams == 2
\* largest server index / enum index a caller selects
MaxIndex == 3
\* largest number of items of an array value given to the query serializer
MaxItems == 3
\* largest number of items of an array of strings given to a delimited style
MaxStrings == 2
\* init() calls that may be suspended at the same time
MaxPending == 2
\* axios.create calls of one client
MaxCreated == 2

----------------------------------------------------------------------------
(* JavaScript values *)

Undefined == [undef |-> TRUE]
Null == [null |-> TRUE]
Num(n) == [num |-> n]
Str(s) == [str |-> s]
Arr(a) == [arr |-> a]
Throw(kind) == [throw |-> kind]

IsUndefined(v) == DOMAIN v = {"undef"}
IsNull(v) == DOMAIN v = {"null"}
IsNum(v) == DOMAIN v = {"num"}
IsStr(v) == DOMAIN v = {"str"}
IsArr(v) == DOMAIN v = {"arr"}
IsThrow(v) == DOMAIN v = {"throw"}

\* the condition of `if (v)`
Truthy(v) ==
    CASE IsUndefined(v) -> FALSE
      [] IsNull(v) -> FALSE
      [] IsNum(v) -> v.num # 0
      [] IsStr(v) -> v.str # <<>>
      [] OTHER -> TRUE

Digits == <<"0", "1", "2", "3", "4", "5", "6", "7", "8", "9">>

RECURSIVE NumStr(_)
NumStr(n) ==
    IF n < 10 THEN <<Digits[n + 1]>>
    ELSE NumStr(n \div 10) \o <<Digits[(n % 10) + 1]>>

RECURSIVE JoinStr(_, _)
JoinStr(parts, sep) ==
    IF parts = <<>> THEN <<>>
    ELSE IF Len(parts) = 1 THEN parts[1]
    ELSE parts[1] \o sep \o JoinStr(Tail(parts), sep)

\* String(v) and `${v}`
RECURSIVE StringOf(_)
StringOf(v) ==
    CASE IsUndefined(v) -> <<"undefined">>
      [] IsNull(v) -> <<"null">>
      [] IsNum(v) -> NumStr(v.num)
      [] IsStr(v) -> v.str
      [] IsArr(v) -> JoinStr([i \in 1..Len(v.arr) |->
                                 IF IsUndefined(v.arr[i]) \/ IsNull(v.arr[i])
                                 THEN <<>> ELSE StringOf(v.arr[i])], <<",">>)
      [] OTHER -> <<"[object Object]">>

\* encodeURIComponent of one symbol
EncodeSymbol(c) ==
    CASE c = " " -> "%20"
      [] c = "," -> "%2C"
      [] c = "|" -> "%7C"
      [] c = "/" -> "%2F"
      [] c = "{" -> "%7B"
      [] c = "}" -> "%7D"
      [] c = "&" -> "%26"
      [] c = "=" -> "%3D"
      [] c = "[" -> "%5B"
      [] c = "]" -> "%5D"
      [] OTHER -> c

encodeURIComponent(s) == [i \in 1..Len(s) |-> EncodeSymbol(s[i])]

\* the application/x-www-form-urlencoded serializer of URLSearchParams
FormEncode(s) == [i \in 1..Len(s) |-> IF s[i] = " " THEN "+" ELSE EncodeSymbol(s[i])]

\* objects used as maps: obj[k] = v, { ...a, ...b }
Put(m, k, v) == [x \in DOMAIN m \cup {k} |-> IF x = k THEN v ELSE m[x]]
Spread(a, b) == [x \in DOMAIN a \cup DOMAIN b |-> IF x \in DOMAIN b THEN b[x] ELSE a[x]]
Get(m, k) == IF k \in DOMAIN m THEN m[k] ELSE Undefined

----------------------------------------------------------------------------
(* bath: path templates *)

\* bath(template).names
bathNames(template) ==
    LET idx == SelectSeq([i \in 1..Len(template) |-> i],
                         LAMBDA i : i > 1 /\ i < Len(template)
                                    /\ template[i - 1] = "{" /\ template[i + 1] = "}")
    IN  [j \in 1..Len(idx) |-> template[idx[j]]]

\* bath(template).path(params): every {name} replaced by the encoded value
RECURSIVE bathSubstitute(_, _)
bathSubstitute(template, params) ==
    IF template = <<>> THEN <<>>
    ELSE IF Len(template) >= 3 /\ template[1] = "{" /\ template[3] = "}"
    THEN encodeURIComponent(StringOf(params[template[2]]))
         \o bathSubstitute(SubSeq(template, 4, Len(template)), params)
    ELSE <<template[1]>> \o bathSubstitute(Tail(template), params)

bathPath(template, params) ==
    IF \E i \in 1..Len(bathNames(template)) : bathNames(template)[i] \notin DOMAIN params
    THEN Null
    ELSE Str(bathSubstitute(template, params))

----------------------------------------------------------------------------
(* Documents.  A document string is a bare sequence of symbols. *)

baseURL == <<"http://localhost:8080">>
baseURLAlternative == <<"http://localhost:9090/">>
baseURLWithVariable ==
    <<"http://", "{", "foo1", "}", ".localhost:9090/", "{", "foo2", "}", "/", "{", "foo3", "}", "/">>
baseURLV2 == <<"http://localhost:8080/v2">>

petId == [name |-> "petId", in |-> "path", required |-> TRUE]
petShopId == [name |-> "x-petshop-id", in |-> "header"]

\* the fixture document of the test suite (the paths the model exercises)
FixtureDefinition ==
    [servers |-> <<
        [url |-> baseURL],
        [url |-> baseURLAlternative, description |-> "Alternative server"],
        [url |-> baseURLWithVariable, description |-> "server with variable baseURL",
         variables |-> [foo1 |-> [default |-> <<"bar1">>, enum |-> << <<"bar1">>, <<"bar1a">> >>],
                        foo2 |-> [default |-> <<"bar2b">>, enum |-> << <<"bar2a">>, <<"bar2b">> >>],
                        foo3 |-> [default |-> <<"bar3a">>, enum |-> << <<"bar3a">>, <<"bar3b">> >>]]] >>,
     paths |-> <<
        [path |-> <<"/pets">>,
         item |-> [get |-> [operationId |-> "getPets",
                            parameters |-> <<[name |-> "q", in |-> "query"]>>],
                   post |-> [operationId |-> "createPet"]]],
        [path |-> <<"/pets/", "{", "petId", "}">>,
         item |-> [get |-> [operationId |-> "getPetById", parameters |-> <<petShopId>>],
                   parameters |-> <<petId>>]],
        [path |-> <<"/pets/relative">>,
         item |-> [servers |-> <<[url |-> baseURLV2]>>,
                   get |-> [operationId |-> "getPetsRelative"]]] >>]

\* a document with what the fixture lacks: a server variable whose enum holds
\* the empty string, a server variable without enum, a parameter name declared
\* by the operation and by its path item, servers on both levels, an
\* operation without operationId, a non-method key, top-level security, a
\* query parameter declared with explode: false
VariantDefinition ==
    [servers |-> <<
        [url |-> <<"https://", "{", "env", "}", "api.test/", "{", "version", "}">>,
         description |-> "Alternative server",
         variables |-> [env |-> [default |-> <<"dev.">>, enum |-> << <<>>, <<"dev.">> >>],
                        version |-> [default |-> <<"v1">>]]] >>,
     security |-> <<"apiKey">>,
     paths |-> <<
        [path |-> <<"/pets/", "{", "petId", "}", "/owner">>,
         item |-> [summary |-> "owner",
                   get |-> [operationId |-> "getOwnerByPetId",
                            parameters |-> <<[name |-> "petId", in |-> "cookie"],
                                             [name |-> "q", in |-> "query",
                                              style |-> "form", explode |-> FALSE]>>,
                            servers |-> <<[url |-> <<"http://op.test">>]>>,
                            security |-> <<>>],
                   delete |-> [summary |-> "no operationId"],
                   parameters |-> <<petId>>,
                   servers |-> <<[url |-> <<"http://item.test">>]>>]] >>]

\* a document with an operation whose operationId is the name of a member
\* createAxiosInstance sets itself
ReservedNamesDefinition ==
    [servers |-> <<[url |-> baseURL]>>,
     paths |-> <<
        [path |-> <<"/paths">>,
         item |-> [get |-> [operationId |-> "paths"],
                   post |-> [operationId |-> "listPaths"]]] >>]

\* a document in which two operations share an operationId
DuplicateIdsDefinition ==
    [servers |-> <<[url |-> baseURL]>>,
     paths |-> <<
        [path |-> <<"/cats">>,
         item |-> [post |-> [operationId |-> "listAnimals", summary |-> "cats, post"],
                   get |-> [operationId |-> "listAnimals", summary |-> "cats, get"]]],
        [path |-> <<"/dogs">>,
         item |-> [get |-> [operationId |-> "listAnimals", summary |-> "dogs"],
                   trace |-> [operationId |-> "traceDogs"],
                   head |-> [operationId |-> "headDogs"]]] >>]

\* a document whose operationIds are names of members of an axios instance
AxiosNamesDefinition ==
    [servers |-> <<[url |-> baseURL]>>,
     paths |-> <<
        [path |-> <<"/requests">>,
         item |-> [post |-> [operationId |-> "request"],
                   get |-> [operationId |-> "get"]]] >>]

\* a document without a servers list
NoServersDefinition ==
    [paths |-> <<
        [path |-> <<"/ping">>,
         item |-> [get |-> [operationId |-> "ping"]]] >>]

----------------------------------------------------------------------------
(* Operation catalog *)

HttpMethod == <<"get", "put", "post", "patch", "delete", "options", "head", "trace">>

RECURSIVE Flatten(_)
Flatten(seqs) == IF seqs = <<>> THEN <<>> ELSE Head(seqs) \o Flatten(Tail(seqs))

\* mutant: the path item's servers come before the operation's own
mergeOperation_itemServersFirst(def, path, pathObject, method) ==
    LET op0 == Spread(pathObject[method], [path |-> path, method |-> method])
        op1 == IF "parameters" \in DOMAIN pathObject
               THEN Put(op0, "parameters",
                        (IF "parameters" \in DOMAIN op0 THEN op0.parameters ELSE <<>>)
                        \o pathObject.parameters)
               ELSE op0
        op2 == IF "servers" \in DOMAIN pathObject
               THEN Put(op1, "servers",
                        pathObject.servers
                        \o (IF "servers" \in DOMAIN op1 THEN op1.servers ELSE <<>>))
               ELSE op1
    IN  IF "security" \notin DOMAIN op2 /\ "security" \in DOMAIN def
        THEN Put(op2, "security", def.security)
        ELSE op2

\* mutant: the document's security requirement replaces the operation's own
mergeOperation_documentSecurity(def, path, pathObject, method) ==
    LET op0 == Spread(pathObject[method], [path |-> path, method |-> method])
        op1 == IF "parameters" \in DOMAIN pathObject
               THEN Put(op0, "parameters",
                        (IF "parameters" \in DOMAIN op0 THEN op0.parameters ELSE <<>>)
                        \o pathObject.parameters)
               ELSE op0
        op2 == IF "servers" \in DOMAIN pathObject
               THEN Put(op1, "servers",
                        (IF "servers" \in DOMAIN op1 THEN op1.servers ELSE <<>>)
                        \o pathObject.servers)
               ELSE op1
    IN  IF "security" \in DOMAIN def
        THEN Put(op2, "security", def.security)
        ELSE op2

\* the Operation built for one method of one path item
mergeOperation(def, path, pathObject, method) ==
    LET op0 == Spread(pathObject[method], [path |-> path, method |-> method])
        op1 == IF "parameters" \in DOMAIN pathObject
               THEN Put(op0, "parameters",
                        (IF "parameters" \in DOMAIN op0 THEN op0.parameters ELSE <<>>)
                        \o pathObject.parameters)
               ELSE op0
        op2 == IF "servers" \in DOMAIN pathObject
               THEN Put(op1, "servers",
                        (IF "servers" \in DOMAIN op1 THEN op1.servers ELSE <<>>)
                        \o pathObject.servers)
               ELSE op1
    IN  IF "security" \notin DOMAIN op2 /\ "security" \in DOMAIN def
        THEN Put(op2, "security", def.security)
        ELSE op2

\* mutant: the methods of a path item are taken in the reverse order
getOperations_reverseMethods(def) ==
    IF IsUndefined(def) \/ "paths" \notin DOMAIN def THEN <<>>
    ELSE Flatten([i \in 1..Len(def.paths) |->
            LET p == def.paths[i]
                present == SelectSeq([j \in 1..Len(HttpMethod) |-> HttpMethod[Len(HttpMethod) + 1 - j]],
                                     LAMBDA m : m \in DOMAIN p.item)
            IN  [j \in 1..Len(present) |-> mergeOperation(def, p.path, p.item, present[j])]])

\* lines 588-610: the operations of the document, path by path, and within a
\* path in the order of HttpMethod
getOperations(def) ==
    IF IsUndefined(def) \/ "paths" \notin DOMAIN def THEN <<>>
    ELSE Flatten([i \in 1..Len(def.paths) |->
            LET p == def.paths[i]
                present == SelectSeq(HttpMethod, LAMBDA m : m \in DOMAIN p.item)
            IN  [j \in 1..Len(present) |-> mergeOperation(def, p.path, p.item, present[j])]])

getOperation(def, operationId) ==
    LET ops == getOperations(def)
        hits == SelectSeq(ops, LAMBDA op : "operationId" \in DOMAIN op
                                           /\ op.operationId = operationId)
    IN  IF hits = <<>> THEN Undefined ELSE hits[1]

----------------------------------------------------------------------------
(* Server resolver *)

\* lines 327-342 of getBaseURL: the server this.defaultServer selects.
\* A selector is Num(index), [desc |-> description] or [server |-> Server].
selectTargetServer(def, server) ==
    IF IsNum(server)
    THEN IF "servers" \in DOMAIN def /\ server.num + 1 \in 1..Len(def.servers)
         THEN def.servers[server.num + 1]
         ELSE Undefined
    ELSE IF "desc" \in DOMAIN server
    THEN IF "servers" \notin DOMAIN def
         THEN Throw("TypeError")
         ELSE LET hits == SelectSeq(def.servers,
                              LAMBDA s : "description" \in DOMAIN s
                                         /\ s.description = server.desc)
              IN  IF hits = <<>> THEN Undefined ELSE hits[1]
    ELSE IF "url" \in DOMAIN server.server /\ server.server.url # <<>>
    THEN server.server
    ELSE Undefined

\* lines 365-404 of getBaseURL: the loop over the names of the URL template
RECURSIVE resolveVariables(_, _, _, _)
resolveVariables(names, variables, variableSet, resolved) ==
    IF names = <<>> THEN resolved
    ELSE
    LET name == Head(names)
        varValue == Get(variables, name)
        rest == Tail(names)
    IN  IF IsUndefined(variableSet) \/ name \notin DOMAIN variableSet
        THEN Throw("TypeError")
        ELSE IF ~IsUndefined(varValue) /\ "enum" \in DOMAIN variableSet[name]
        THEN LET enum == variableSet[name].enum
             IN  IF IsNum(varValue)
                 THEN IF varValue.num + 1 \in 1..Len(enum) /\ enum[varValue.num + 1] # <<>>
                      THEN resolveVariables(rest, variables, variableSet,
                                            Put(resolved, name, Str(enum[varValue.num + 1])))
                      ELSE Throw("IndexOutOfRange")
                 ELSE IF IsStr(varValue)
                 THEN IF \E i \in 1..Len(enum) : enum[i] = varValue.str
                      THEN resolveVariables(rest, variables, variableSet,
                                            Put(resolved, name, varValue))
                      ELSE Throw("InvalidEnumValue")
                 ELSE resolveVariables(rest, variables, variableSet, resolved)
        ELSE resolveVariables(rest, variables, variableSet,
                 Put(resolved, name,
                     IF "default" \in DOMAIN variableSet[name]
                     THEN Str(variableSet[name].default) ELSE Undefined))

\* getBaseURL(operation?): a Str, Undefined, Null or a Throw
getBaseURL(def, server, variables, operation) ==
    IF IsUndefined(def) THEN Undefined
    ELSE IF ~IsUndefined(operation) /\ "servers" \in DOMAIN operation
            /\ operation.servers # <<>>
    THEN Str(operation.servers[1].url)
    ELSE
    LET targetServer == selectTargetServer(def, server)
    IN  IF IsThrow(targetServer) THEN targetServer
        ELSE IF IsUndefined(targetServer) THEN Undefined
        ELSE IF bathNames(targetServer.url) = <<>> THEN Str(targetServer.url)
        ELSE LET resolved == resolveVariables(bathNames(targetServer.url), variables,
                                              Get(targetServer, "variables"), <<>>)
             IN  IF IsThrow(resolved) THEN resolved
                 ELSE bathPath(targetServer.url, resolved)

----------------------------------------------------------------------------
(* Parameter resolution.  The first call argument is Undefined, Null, a    *)
(* scalar Num/Str, a ParamsArray [params |-> <<[name, value, in?], ...>>]  *)
(* or a ParamsObject [object |-> <<[name, value], ...>>] (keys in          *)
(* insertion order).                                                       *)

ParamType == [Query |-> "query", Header |-> "header", Path |-> "path", Cookie |-> "cookie"]

IsParamsArray(v) == DOMAIN v = {"params"}
IsParamsObject(v) == DOMAIN v = {"object"}

EmptyBuckets ==
    [pathParams |-> <<>>, searchParams |-> <<>>, query |-> <<>>, headers |-> <<>>, cookies |-> <<>>]

setRequestParam(buckets, name, value, type) ==
    CASE type = ParamType.Path ->
            [buckets EXCEPT !.pathParams = Put(@, name, value)]
      [] type = ParamType.Query ->
            [buckets EXCEPT
                !.searchParams =
                    IF IsArr(value)
                    THEN @ \o [i \in 1..Len(value.arr) |-> <<name, StringOf(value.arr[i])>>]
                    ELSE Append(@, <<name, StringOf(value)>>),
                !.query = Put(@, name, value)]
      [] type = ParamType.Header ->
            [buckets EXCEPT !.headers = Put(@, name, value)]
      [] type = ParamType.Cookie ->
            [buckets EXCEPT !.cookies = Put(@, name, value)]
      [] OTHER -> buckets

\* mutant: the last declared parameter of that name decides
getParamType_lastMatch(parameters, paramName) ==
    LET hits == SelectSeq(parameters, LAMBDA param : param.name = paramName)
    IN  IF hits # <<>> THEN hits[Len(hits)].in ELSE ParamType.Query

getParamType(parameters, paramName) ==
    LET hits == SelectSeq(parameters, LAMBDA param : param.name = paramName)
    IN  IF hits # <<>> THEN hits[1].in ELSE ParamType.Query

getFirstOperationParam(parameters) ==
    LET required == SelectSeq(parameters,
                        LAMBDA param : "required" \in DOMAIN param /\ param.required = TRUE)
    IN  IF required # <<>> THEN required[1]
        ELSE IF parameters # <<>> THEN parameters[1]
        ELSE Undefined

\* mutant: the params object skips null values as well as undefined ones
requestParams_skipNullish(parameters, paramsArg) ==
    IF IsParamsArray(paramsArg)
    THEN [calls |-> [i \in 1..Len(paramsArg.params) |->
            LET param == paramsArg.params[i]
            IN  <<param.name, param.value,
                  IF "in" \in DOMAIN param /\ param.in # ""
                  THEN param.in ELSE getParamType(parameters, param.name)>>]]
    ELSE IF IsParamsObject(paramsArg) \/ IsNull(paramsArg)
    THEN LET entries == IF IsNull(paramsArg) THEN <<>> ELSE paramsArg.object
             defined == SelectSeq(entries, LAMBDA e : ~IsUndefined(e.value) /\ ~IsNull(e.value))
         IN  [calls |-> [i \in 1..Len(defined) |->
                <<defined[i].name, defined[i].value,
                  getParamType(parameters, defined[i].name)>>]]
    ELSE IF Truthy(paramsArg)
    THEN LET firstParam == getFirstOperationParam(parameters)
         IN  IF IsUndefined(firstParam) THEN Throw("NoParametersFound")
             ELSE [calls |-> << <<firstParam.name, paramsArg, firstParam.in>> >>]
    ELSE [calls |-> <<>>]

\* lines 517-536: the setRequestParam calls the first argument leads to, in
\* order, as <<name, value, type>> triples; or the error thrown
requestParams(parameters, paramsArg) ==
    IF IsParamsArray(paramsArg)
    THEN [calls |-> [i \in 1..Len(paramsArg.params) |->
            LET param == paramsArg.params[i]
            IN  <<param.name, param.value,
                  IF "in" \in DOMAIN param /\ param.in # ""
                  THEN param.in ELSE getParamType(parameters, param.name)>>]]
    ELSE IF IsParamsObject(paramsArg) \/ IsNull(paramsArg)
    THEN LET entries == IF IsNull(paramsArg) THEN <<>> ELSE paramsArg.object
             defined == SelectSeq(entries, LAMBDA e : ~IsUndefined(e.value))
         IN  [calls |-> [i \in 1..Len(defined) |->
                <<defined[i].name, defined[i].value,
                  getParamType(parameters, defined[i].name)>>]]
    ELSE IF Truthy(paramsArg)
    THEN LET firstParam == getFirstOperationParam(parameters)
         IN  IF IsUndefined(firstParam) THEN Throw("NoParametersFound")
             ELSE [calls |-> << <<firstParam.name, paramsArg, firstParam.in>> >>]
    ELSE [calls |-> <<>>]

RECURSIVE setRequestParams(_, _)
setRequestParams(buckets, triples) ==
    IF triples = <<>> THEN buckets
    ELSE setRequestParams(setRequestParam(buckets, triples[1][1], triples[1][2], triples[1][3]),
                          Tail(triples))

\* mutant: missing path parameters are left unset
fillPathParams_skip(names, pathParams) == pathParams

\* lines 541-544: make sure all path parameters are set
RECURSIVE fillPathParams(_, _)
fillPathParams(names, pathParams) ==
    IF names = <<>> THEN pathParams
    ELSE fillPathParams(Tail(names),
             Put(pathParams, Head(names), Str(StringOf(Get(pathParams, Head(names))))))

\* URLSearchParams.toString()
searchParamsToString(searchParams) ==
    JoinStr([i \in 1..Len(searchParams) |->
                FormEncode(<<searchParams[i][1]>>) \o <<"=">> \o FormEncode(searchParams[i][2])],
            <<"&">>)

\* lines 553-565: default common headers, then method specific default headers
addDefaultHeaders(headers, defaultHeaders, method, applyMethod) ==
    LET common == Spread(headers, IF "common" \in DOMAIN defaultHeaders
                                  THEN defaultHeaders.common ELSE <<>>)
    IN  IF applyMethod
        THEN Spread(common, IF method \in DOMAIN defaultHeaders
                            THEN defaultHeaders[method] ELSE <<>>)
        ELSE common

\* lines 538-579: the descriptor, from the routed buckets, the completed path
\* parameters, the query string and the base URL
requestConfig(c, operation, payload, buckets, pathParams, queryString, base) ==
    [method |-> operation.method,
     url |-> Str(StringOf(base) \o StringOf(bathPath(operation.path, pathParams))
                 \o (IF queryString # <<>> THEN <<"?">> \o queryString ELSE <<>>)),
     path |-> bathPath(operation.path, pathParams),
     pathParams |-> pathParams,
     query |-> buckets.query,
     queryString |-> Str(queryString),
     headers |-> addDefaultHeaders(buckets.headers, c.instance.defaults.headers,
                                   operation.method, c.applyMethodCommonHeaders),
     cookies |-> buckets.cookies,
     payload |-> payload]

\* lines 538-579 for the buckets the setRequestParam calls filled; base is what
\* getBaseURL(operation) gives at line 551
routedRequestConfig(c, operation, payload, buckets, base) ==
    IF IsThrow(base) THEN base
    ELSE IF IsUndefined(c.instance) THEN Throw("TypeError")
    ELSE requestConfig(c, operation, payload, buckets,
                       fillPathParams(bathNames(operation.path), buckets.pathParams),
                       searchParamsToString(buckets.searchParams), base)

\* lines 517-579 for the setRequestParam calls the first argument leads to
classifiedRequestConfig(c, operation, args, triples) ==
    IF IsThrow(triples) THEN triples
    ELSE routedRequestConfig(c, operation, args[2],
             setRequestParams(EmptyBuckets, triples.calls),
             getBaseURL(c.definition, c.defaultServer, c.baseURLVariables, operation))

\* getRequestConfigForOperation(operation, args) on the client c; args is
\* <<paramsArg, payload, config>>
getRequestConfigForOperation(c, operation, args) ==
    classifiedRequestConfig(c, operation, args,
        requestParams(IF "parameters" \in DOMAIN operation THEN operation.parameters ELSE <<>>,
                      args[1]))

\* mutant: the override config replaces params and headers as a whole
mergeAxiosConfig_wholesale(axiosConfig, config) == Spread(axiosConfig, config)

\* lines 440-451: the override config spread over the computed config, params
\* and headers merged key by key
mergeAxiosConfig(axiosConfig, config) ==
    Spread(Spread(axiosConfig, config),
           [params |-> Spread(axiosConfig.params,
                              IF "params" \in DOMAIN config THEN config.params ELSE <<>>),
            headers |-> Spread(axiosConfig.headers,
                               IF "headers" \in DOMAIN config THEN config.headers ELSE <<>>)])

\* lines 421-436: the axios config of a request config, with the baseURL of
\* the operation's first server
axiosConfigOfRequest(request, operation) ==
    LET axiosConfig == [method |-> request.method,
                        url |-> request.path,
                        data |-> request.payload,
                        params |-> request.query,
                        headers |-> request.headers]
    IN  IF "servers" \in DOMAIN operation /\ operation.servers # <<>>
        THEN Put(axiosConfig, "baseURL", Str(operation.servers[1].url))
        ELSE axiosConfig

\* lines 421-451 for the request config line 419 computed
overriddenAxiosConfig(request, operation, config) ==
    IF IsThrow(request) THEN request
    ELSE mergeAxiosConfig(axiosConfigOfRequest(request, operation),
                          IF IsUndefined(config) THEN <<>> ELSE config)

\* getAxiosConfigForOperation(operation, args)
getAxiosConfigForOperation(c, operation, args) ==
    overriddenAxiosConfig(getRequestConfigForOperation(c, operation, args), operation, args[3])

----------------------------------------------------------------------------
(* The axios instance *)

\* axios.defaults.headers of the library
LibraryDefaultHeaders ==
    [common |-> [Accept |-> Str(<<"application/json, text/plain, */*">>)]]

\* the function members every axios instance has (defaults is the record field)
AxiosMembers ==
    [name \in {"request", "getUri", "get", "delete", "head", "options",
               "post", "put", "patch"} |-> [axios |-> name]]

\* axios.create(config): the instance, with config merged over the library defaults
axiosCreate(config) ==
    LET given == IF "headers" \in DOMAIN config THEN config.headers ELSE <<>>
        headers == [scope \in DOMAIN LibraryDefaultHeaders \cup DOMAIN given |->
                        Spread(IF scope \in DOMAIN LibraryDefaultHeaders
                               THEN LibraryDefaultHeaders[scope] ELSE <<>>,
                               IF scope \in DOMAIN given THEN given[scope] ELSE <<>>)]
    IN  [defaults |-> Put(config, "headers", headers), members |-> AxiosMembers]

\* mutant: a new axios instance in every call
getAxiosInstance_alwaysCreate(c) ==
    Put(axiosCreate(c.axiosConfigDefaults), "id", c.instancesCreated + 1)

\* the instance of the client, or a new one: the id tells the instances
\* axios.create returns apart
getAxiosInstance(c) ==
    IF IsUndefined(c.instance)
    THEN Put(axiosCreate(c.axiosConfigDefaults), "id", c.instancesCreated + 1)
    ELSE c.instance

\* the number of axios.create calls after getAxiosInstance()
axiosCreateCalls(c) ==
    IF getAxiosInstance(c).id > c.instancesCreated
    THEN getAxiosInstance(c).id ELSE c.instancesCreated

\* opts.transformOperationName: the default, and the upper-casing one of the tests
UpperCase ==
    [getPets |-> "GETPETS", createPet |-> "CREATEPET", getPetById |-> "GETPETBYID",
     getPetsRelative |-> "GETPETSRELATIVE", getOwnerByPetId |-> "GETOWNERBYPETID",
     ping |-> "PING", paths |-> "PATHS", listPaths |-> "LISTPATHS"]

applyTransformOperationName(transform, operationId) ==
    IF transform = "toUpperCase" THEN UpperCase[operationId] ELSE operationId

\* createOperationMethod(operation): the async function closed over the operation
\* (transformOperationMethod is the default identity)
createOperationMethod(operation) == [operation |-> operation]

\* the loop "create methods for operationIds": each assignment replaces what
\* the instance had under that name
RECURSIVE operationIdMethods(_, _, _)
operationIdMethods(members, operations, transform) ==
    IF operations = <<>> THEN members
    ELSE operationIdMethods(
            IF "operationId" \in DOMAIN Head(operations)
            THEN Put(members,
                     applyTransformOperationName(transform, Head(operations).operationId),
                     createOperationMethod(Head(operations)))
            ELSE members,
            Tail(operations), transform)

\* getOperations().find(op => op.method === method && op.path === path)
findOperation(def, path, method) ==
    LET hits == SelectSeq(getOperations(def),
                          LAMBDA op : op.method = method /\ op.path = path)
    IN  IF hits = <<>> THEN Undefined ELSE hits[1]

\* the loop "create paths dictionary": path -> method -> operation method
pathsDictionary(def) ==
    LET paths == IF "paths" \in DOMAIN def THEN def.paths ELSE <<>>
        item(path) == (CHOOSE i \in 1..Len(paths) : paths[i].path = path)
    IN  [path \in {paths[i].path : i \in 1..Len(paths)} |->
            [method \in {m \in DOMAIN paths[item(path)].item :
                            \E j \in 1..Len(HttpMethod) : HttpMethod[j] = m} |->
                createOperationMethod(findOperation(def, path, method))]]

\* the instance with the operation methods, the paths dictionary and api
boundInstance(c, inst) ==
    [inst EXCEPT !.members =
        Put(Put(operationIdMethods(@, getOperations(c.definition), c.transformOperationName),
                "paths", [paths |-> pathsDictionary(c.definition)]),
            "api", [api |-> "this"])]

\* createAxiosInstance(): the instance, or the error getBaseURL throws
createAxiosInstance(c) ==
    LET inst == getAxiosInstance(c)
        base == getBaseURL(c.definition, c.defaultServer, c.baseURLVariables, Undefined)
    IN  IF IsThrow(base) THEN base
        ELSE IF Truthy(base) /\ ~Truthy(Get(inst.defaults, "baseURL"))
        THEN boundInstance(c, [inst EXCEPT !.defaults = Put(@, "baseURL", base)])
        ELSE boundInstance(c, inst)

\* the request axios sends for instance.request(config): config over the defaults
axiosRequest(inst, config) ==
    Put(config, "baseURL",
        IF "baseURL" \in DOMAIN config /\ ~IsUndefined(config.baseURL)
        THEN config.baseURL ELSE Get(inst.defaults, "baseURL"))

----------------------------------------------------------------------------
(* Runners *)

DefaultRunnerKey == "default"

\* mutant: the default runner runs every operation
getRunner_defaultOnly(table, operation) == table[DefaultRunnerKey]

getRunner(table, operation) ==
    LET key == IF "operationId" \in DOMAIN operation THEN operation.operationId ELSE "undefined"
    IN  IF key \in DOMAIN table THEN table[key] ELSE table[DefaultRunnerKey]

\* lines 130-134: this.client.request(axiosConfig) of the default runner. The
\* member request is the function of axios, or the operation method that was
\* assigned over it: that one resolves its own request and calls its runner,
\* which, being the default runner again, never returns
clientRequest(c, axiosConfig) ==
    LET request == c.instance.members["request"]
    IN  IF "axios" \in DOMAIN request THEN axiosRequest(c.instance, axiosConfig)
        ELSE IF IsThrow(getBaseURL(c.definition, c.defaultServer, c.baseURLVariables,
                                   request.operation))
        THEN getBaseURL(c.definition, c.defaultServer, c.baseURLVariables, request.operation)
        ELSE IF getRunner(c.runners, request.operation).kind = "axios"
        THEN Throw("RangeError")
        ELSE [operationMethod |-> request.operation,
              runner |-> getRunner(c.runners, request.operation)]

\* lines 647-650: the runner of the operation is handed the axios config; the
\* default runner sends it with the client
runRequest(c, runner, axiosConfig) ==
    IF IsThrow(axiosConfig) THEN axiosConfig
    ELSE [runner |-> runner,
          axiosConfig |-> axiosConfig,
          request |-> IF runner.kind = "axios"
                      THEN clientRequest(c, axiosConfig) ELSE axiosConfig]

\* the async function createOperationMethod returns, called with args: the
\* error it rejects with, or what it hands to the runner
operationMethod(c, operation, args) ==
    runRequest(c, getRunner(c.runners, operation),
               getAxiosConfigForOperation(c, operation, args))

\* line 650: the runRequest calls one invocation of an operation method makes,
\* each with the runner called, the axios config handed to it and what the
\* promise it returns settles with; ret is what operationMethod computed
runRequests(ret, outcome) ==
    IF IsThrow(ret) THEN <<>>
    ELSE <<[runner |-> ret.runner, axiosConfig |-> ret.axiosConfig,
            outcome |-> IF IsThrow(ret.request) THEN ret.request ELSE outcome]>>

\* lines 645-651: what the promise of the async operation method settles with:
\* the error thrown before the runner is reached, or the runner's own promise
settled(ret, outcome) ==
    IF IsThrow(ret) THEN ret ELSE IF IsThrow(ret.request) THEN ret.request ELSE outcome

\* registerRunner(runner, operationId?); operationId is [id |-> operationId] or
\* Undefined
registerRunner(table, runner, operationId) ==
    Put(table, IF IsUndefined(operationId) THEN DefaultRunnerKey ELSE operationId.id, runner)

----------------------------------------------------------------------------
(* Query parameter serializer.  An object value is [obj |-> <<[key, value],  *)
(* ...>>], its keys in insertion order; a fragment is a string; the result *)
(* is the sequence of fragments.                                           *)

Obj(entries) == [obj |-> entries]
IsObj(v) == DOMAIN v = {"obj"}

\* `${encodeURIComponent(name)}=${encodedValue}`
fragment(name, encodedValue) == encodeURIComponent(<<name>>) \o <<"=">> \o encodedValue

\* value.map((item) => encodeURIComponent(String(item)))
encodedItems(value) == [i \in 1..Len(value) |-> encodeURIComponent(StringOf(value[i]))]

\* value.map((item) => `${encodeURIComponent(name)}=${encodeURIComponent(String(item))}`)
explodedItems(name, value) ==
    [i \in 1..Len(value) |-> fragment(name, encodeURIComponent(StringOf(value[i])))]

\* mutant: every delimited style joins the items with a comma
serializeArrayParameter_commaJoined(name, value, style, explode) ==
    IF value = <<>> THEN <<>>
    ELSE IF explode \/ style \notin {"form", "spaceDelimited", "pipeDelimited"}
    THEN explodedItems(name, value)
    ELSE <<fragment(name, JoinStr(encodedItems(value), <<",">>))>>

serializeArrayParameter(name, value, style, explode) ==
    IF value = <<>> THEN <<>>
    ELSE CASE style = "form" ->
                IF explode THEN explodedItems(name, value)
                ELSE <<fragment(name, JoinStr(encodedItems(value), <<",">>))>>
           [] style = "spaceDelimited" ->
                IF explode THEN explodedItems(name, value)
                ELSE <<fragment(name, JoinStr(encodedItems(value), <<"%20">>))>>
           [] style = "pipeDelimited" ->
                IF explode THEN explodedItems(name, value)
                ELSE <<fragment(name, JoinStr(encodedItems(value), <<"%7C">>))>>
           [] OTHER -> explodedItems(name, value)

\* pairs.push(encodeURIComponent(key)); pairs.push(encodeURIComponent(String(value[key])))
RECURSIVE encodedPairs(_)
encodedPairs(entries) ==
    IF entries = <<>> THEN <<>>
    ELSE <<encodeURIComponent(<<entries[1].key>>),
           encodeURIComponent(StringOf(entries[1].value))>>
         \o encodedPairs(Tail(entries))

\* keys.map((key) => `${encodeURIComponent(key)}=${encodeURIComponent(String(value[key]))}`)
flattenedKeys(entries) ==
    [i \in 1..Len(entries) |->
        fragment(entries[i].key, encodeURIComponent(StringOf(entries[i].value)))]

\* mutant: the exploded form style prefixes every key with the parameter name
serializeObjectParameter_namespaced(name, value, style, explode) ==
    IF value = <<>> THEN <<>>
    ELSE IF style \in {"deepObject", "form"} /\ ~explode
    THEN <<fragment(name, JoinStr(encodedPairs(value), <<",">>))>>
    ELSE IF style \in {"deepObject", "form"}
    THEN [i \in 1..Len(value) |->
            encodeURIComponent(<<name>>) \o <<"[">>
            \o encodeURIComponent(<<value[i].key>>) \o <<"]", "=">>
            \o encodeURIComponent(StringOf(value[i].value))]
    ELSE flattenedKeys(value)

serializeObjectParameter(name, value, style, explode) ==
    IF value = <<>> THEN <<>>
    ELSE CASE style = "deepObject" ->
                IF explode
                THEN [i \in 1..Len(value) |->
                        encodeURIComponent(<<name>>) \o <<"[">>
                        \o encodeURIComponent(<<value[i].key>>) \o <<"]", "=">>
                        \o encodeURIComponent(StringOf(value[i].value))]
                ELSE <<fragment(name, JoinStr(encodedPairs(value), <<",">>))>>
           [] style = "form" ->
                IF explode THEN flattenedKeys(value)
                ELSE <<fragment(name, JoinStr(encodedPairs(value), <<",">>))>>
           [] OTHER -> flattenedKeys(value)

\* param?.style || 'form'
styleOf(param) ==
    IF ~IsUndefined(param) /\ "style" \in DOMAIN param /\ param.style # ""
    THEN param.style ELSE "form"

\* param?.explode !== undefined ? param.explode : true
explodeOf(param) ==
    IF ~IsUndefined(param) /\ "explode" \in DOMAIN param THEN param.explode ELSE TRUE

\* serializeQueryParameter(param, name, value); param is the parameter
\* definition or Undefined
serializeQueryParameter(param, name, value) ==
    IF IsNull(value) \/ IsUndefined(value) THEN <<>>
    ELSE IF IsArr(value)
    THEN serializeArrayParameter(name, value.arr, styleOf(param), explodeOf(param))
    ELSE IF IsObj(value)
    THEN serializeObjectParameter(name, value.obj, styleOf(param), explodeOf(param))
    ELSE <<fragment(name, encodeURIComponent(StringOf(value)))>>

----------------------------------------------------------------------------
(* Inputs *)

ParamNames == {"petId", "x-petshop-id", "q"}
ParamTypes == {ParamType.Path, ParamType.Query, ParamType.Header, ParamType.Cookie}

SeqsUpTo(S, n) == UNION {[1..k -> S] : k \in 0..n}

ArrayEntries ==
    {[name |-> n, value |-> Num(1)] : n \in ParamNames}
    \cup {[name |-> n, value |-> Num(1), in |-> t] : n \in ParamNames, t \in ParamTypes}

ObjectValues ==
    {Num(n) : n \in 0..MaxNum}
    \cup {Str(<<"a", " ", "b">>), Undefined, Null, Arr(<<Str(<<"a">>), Str(<<"b">>)>>)}

ObjectEntries == {[name |-> n, value |-> v] : n \in ParamNames, v \in ObjectValues}

Scalars ==
    {Num(n) : n \in 0..MaxNum} \cup {Str(<<>>), Str(<<"a", " ", "b">>), Str(<<"{", "q", "}">>)}

ParamsArrays == {[params |-> s] : s \in SeqsUpTo(ArrayEntries, MaxParams)}

ParamsObjects ==
    {[object |-> s] : s \in {t \in SeqsUpTo(ObjectEntries, MaxParams) :
                                \A i, j \in 1..Len(t) : i # j => t[i].name # t[j].name}}

ParamsArgs == {Undefined, Null} \cup Scalars \cup ParamsArrays \cup ParamsObjects

SmallParamsArgs ==
    {Undefined, Num(1),
     [object |-> <<[name |-> "q", value |-> Str(<<"cat">>)],
                   [name |-> "x-petshop-id", value |-> Str(<<"a", " ", "b">>)]>>]}

Payloads == {Undefined, [name |-> Str(<<"Garfield">>)]}

ConfigOverrides ==
    {Undefined,
     [headers |-> Put(<<>>, "x-petshop-id", Str(<<"override">>))],
     [headers |-> [Accept |-> Str(<<"text/plain">>)], params |-> [extra |-> Num(1)]],
     [params |-> [q |-> Str(<<"dog">>)]],
     [baseURL |-> Str(<<"http://override.test">>)],
     [method |-> "post", url |-> Str(<<"/other">>), data |-> Str(<<"other">>)],
     [timeout |-> Num(1000)]}

HeaderDefaults ==
    {<<>>,
     [headers |-> [common |-> Put(<<>>, "x-petshop-id", Str(<<"common">>)),
                   get |-> Put(<<>>, "x-petshop-id", Str(<<"get">>))]]}

Selectors ==
    {Num(n) : n \in 0..MaxIndex}
    \cup {[desc |-> "Alternative server"], [desc |-> "no such server"],
          [server |-> [url |-> <<"http://example.com/apiv4">>, description |-> "example api v4"]]}

VariableTables ==
    {<<>>,
     [foo2 |-> Str(<<"bar2a">>), foo3 |-> Num(1), env |-> Str(<<"dev.">>), version |-> Str(<<"v2">>)],
     [foo2 |-> Str(<<"bar2c">>), env |-> Str(<<"prod.">>)]}
    \cup {[foo3 |-> Num(n), env |-> Num(n)] : n \in 0..MaxIndex}

\* what the promise returned by a runner settles with: a response or an error
RunnerOutcomes == {[response |-> [status |-> 200]], Throw("TransportError")}

\* the runners an application registers
Runners == {[kind |-> "custom", id |-> "a"], [kind |-> "custom", id |-> "b"]}

\* the operationId argument of registerRunner: [id |-> operationId], or
\* Undefined when it is left out
RunnerOperationIds ==
    {Undefined, [id |-> "getPets"], [id |-> "getPetById"], [id |-> "default"]}

\* values the application gives a default header
DefaultHeaderValues == {Str(<<"common">>), Str(<<"other">>)}

\* opts.transformOperationName
OperationNameTransforms == {"identity", "toUpperCase"}

----------------------------------------------------------------------------
(* The client *)

Self ==
    [definition |-> definition, instance |-> instance,
     axiosConfigDefaults |-> axiosConfigDefaults,
     defaultServer |-> defaultServer, baseURLVariables |-> baseURLVariables,
     applyMethodCommonHeaders |-> applyMethodCommonHeaders, runners |-> runners,
     transformOperationName |-> transformOperationName,
     instancesCreated |-> instancesCreated]

\* no call is in progress: the caller has taken the outcome of its previous call
NoCall == [call |-> "none"]
Idle == last = NoCall

\* new OpenAPIClientAxios(opts)
Constructor(documents, servers, variableTables, applyMethods, configDefaults, transforms) ==
    /\ inputDocument \in documents
    /\ document = Undefined
    /\ pendingInits = 0
    /\ kept = NoCall
    /\ instancesCreated = 0
    /\ inFlight = NoCall
    /\ transformOperationName \in transforms
    /\ definition = Undefined
    /\ initialized = FALSE
    /\ instance = Undefined
    /\ axiosConfigDefaults \in configDefaults
    /\ defaultServer \in servers
    /\ baseURLVariables \in variableTables
    /\ applyMethodCommonHeaders \in applyMethods
    /\ runners = [default |-> [kind |-> "axios"]]
    /\ last = NoCall

Init ==
    Constructor({FixtureDefinition, VariantDefinition}, {Num(0)}, {<<>>}, BOOLEAN,
                HeaderDefaults, {"identity"})

InitSync ==
    LET created == createAxiosInstance([Self EXCEPT !.definition = inputDocument])
    IN  /\ Idle
        /\ axiosCreateCalls(Self) <= MaxCreated
        /\ instancesCreated' = axiosCreateCalls(Self)
        /\ document' = inputDocument
        /\ definition' = inputDocument
        /\ IF IsThrow(created)
           THEN UNCHANGED <<instance, initialized>>
           ELSE instance' = created /\ initialized' = TRUE
        /\ last' = [call |-> "initSync", ret |-> created]
        /\ UNCHANGED <<inFlight, kept, inputDocument, pendingInits, transformOperationName,
                       axiosConfigDefaults, defaultServer, baseURLVariables,
                       applyMethodCommonHeaders, runners>>

\* init() up to its await: loadDocument() has stored the object document
InitCall ==
    /\ Idle
    /\ pendingInits < MaxPending
    /\ document' = inputDocument
    /\ pendingInits' = pendingInits + 1
    /\ last' = [call |-> "init", pending |-> pendingInits + 1]
    /\ UNCHANGED <<inFlight, instancesCreated,
                   kept, inputDocument, transformOperationName, definition, initialized, instance,
                   axiosConfigDefaults, defaultServer, baseURLVariables,
                   applyMethodCommonHeaders, runners>>

\* init() after its await: dereference, create the instance, resolve
InitResume ==
    LET created == createAxiosInstance([Self EXCEPT !.definition = document])
    IN  /\ Idle
        /\ pendingInits > 0
        /\ axiosCreateCalls(Self) <= MaxCreated
        /\ instancesCreated' = axiosCreateCalls(Self)
        /\ pendingInits' = pendingInits - 1
        /\ definition' = document
        /\ IF IsThrow(created)
           THEN UNCHANGED <<instance, initialized>>
           ELSE instance' = created /\ initialized' = TRUE
        /\ last' = [call |-> "init", ret |-> created]
        /\ UNCHANGED <<inFlight, kept, inputDocument, document, transformOperationName,
                       axiosConfigDefaults, defaultServer, baseURLVariables,
                       applyMethodCommonHeaders, runners>>

\* getClient(): init() up to its await when the client is not initialized,
\* the instance otherwise
GetClientCall ==
    /\ Idle
    /\ IF ~initialized
       THEN /\ pendingInits < MaxPending
            /\ document' = inputDocument
            /\ pendingInits' = pendingInits + 1
            /\ last' = [call |-> "getClient", pending |-> pendingInits + 1]
       ELSE /\ last' = [call |-> "getClient", ret |-> instance]
            /\ UNCHANGED <<document, pendingInits>>
    /\ UNCHANGED <<inFlight, instancesCreated, kept, inputDocument, transformOperationName, definition,
                   initialized, instance, axiosConfigDefaults, defaultServer,
                   baseURLVariables, applyMethodCommonHeaders, runners>>

WithServer(servers, variableTables) ==
    /\ Idle
    /\ \E server \in servers, variables \in variableTables \cup {Undefined} :
        /\ defaultServer' = server
        /\ baseURLVariables' = IF IsUndefined(variables) THEN <<>> ELSE variables
        /\ last' = [call |-> "withServer", args |-> <<server, variables>>]
        /\ kept' = NoCall
        /\ UNCHANGED <<inFlight, instancesCreated,
                       inputDocument, document, pendingInits, transformOperationName,
                       definition, initialized, instance, axiosConfigDefaults,
                       applyMethodCommonHeaders, runners>>

GetBaseURLCall ==
    /\ Idle
    /\ \E i \in 0..Len(getOperations(definition)) :
        LET operation == IF i = 0 THEN Undefined ELSE getOperations(definition)[i]
        IN  /\ last' = [call |-> "getBaseURL", operation |-> operation,
                        ret |-> getBaseURL(definition, defaultServer, baseURLVariables, operation)]
            /\ UNCHANGED <<inFlight, instancesCreated,
                           kept, inputDocument, document, pendingInits, transformOperationName,
                           definition, initialized, instance, axiosConfigDefaults,
                           defaultServer, baseURLVariables, applyMethodCommonHeaders, runners>>

\* mutant: the headers of the descriptor are the instance's common default
\* headers object itself, so the call writes the resolved headers into it
GetRequestConfigForOperationCall_sharedHeaders(paramsArgs, payloads) ==
    /\ Idle
    /\ \E i \in 1..Len(getOperations(definition)), paramsArg \in paramsArgs, payload \in payloads :
        LET operation == getOperations(definition)[i]
            args == <<paramsArg, payload, Undefined>>
            ret == getRequestConfigForOperation(Self, operation, args)
        IN  /\ last' = [call |-> "getRequestConfigForOperation", operation |-> operation,
                        args |-> args, argsAfter |-> args, ret |-> ret]
            /\ instance' = IF IsThrow(ret) THEN instance
                           ELSE [instance EXCEPT !.defaults.headers.common = ret.headers]
            /\ UNCHANGED <<inFlight, instancesCreated,
                           kept, inputDocument, document, pendingInits, transformOperationName,
                           definition, initialized, axiosConfigDefaults,
                           defaultServer, baseURLVariables, applyMethodCommonHeaders, runners>>

GetRequestConfigForOperationCall(paramsArgs, payloads) ==
    /\ Idle
    /\ \E i \in 1..Len(getOperations(definition)), paramsArg \in paramsArgs, payload \in payloads :
        LET operation == getOperations(definition)[i]
            args == <<paramsArg, payload, Undefined>>
        IN  /\ last' = [call |-> "getRequestConfigForOperation", operation |-> operation,
                        args |-> args, argsAfter |-> args,
                        ret |-> getRequestConfigForOperation(Self, operation, args)]
            /\ UNCHANGED <<inFlight, instancesCreated,
                           kept, inputDocument, document, pendingInits, transformOperationName,
                           definition, initialized, instance, axiosConfigDefaults,
                           defaultServer, baseURLVariables, applyMethodCommonHeaders, runners>>

\* mutant: the computed config is assigned into the caller's override config
GetAxiosConfigForOperationCall_assignToConfig(paramsArgs, payloads, configs) ==
    /\ Idle
    /\ \E i \in 1..Len(getOperations(definition)), paramsArg \in paramsArgs,
       payload \in payloads, config \in configs :
        LET operation == getOperations(definition)[i]
            args == <<paramsArg, payload, config>>
        IN  /\ last' = [call |-> "getAxiosConfigForOperation", operation |-> operation,
                        args |-> args,
                        argsAfter |-> IF IsUndefined(config) \/ IsThrow(getAxiosConfigForOperation(Self, operation, args))
                                      THEN args
                                      ELSE <<paramsArg, payload,
                                             getAxiosConfigForOperation(Self, operation, args)>>,
                        ret |-> getAxiosConfigForOperation(Self, operation, args)]
            /\ UNCHANGED <<inFlight, instancesCreated,
                           kept, inputDocument, document, pendingInits, transformOperationName,
                           definition, initialized, instance, axiosConfigDefaults,
                           defaultServer, baseURLVariables, applyMethodCommonHeaders, runners>>

\* args is the argument tuple of the call, argsAfter what the caller finds in
\* it afterwards
GetAxiosConfigForOperationCall(paramsArgs, payloads, configs) ==
    /\ Idle
    /\ \E i \in 1..Len(getOperations(definition)), paramsArg \in paramsArgs,
       payload \in payloads, config \in configs :
        LET operation == getOperations(definition)[i]
            args == <<paramsArg, payload, config>>
        IN  /\ last' = [call |-> "getAxiosConfigForOperation", operation |-> operation,
                        args |-> args, argsAfter |-> args,
                        ret |-> getAxiosConfigForOperation(Self, operation, args)]
            /\ UNCHANGED <<inFlight, instancesCreated,
                           kept, inputDocument, document, pendingInits, transformOperationName,
                           definition, initialized, instance, axiosConfigDefaults,
                           defaultServer, baseURLVariables, applyMethodCommonHeaders, runners>>

\* the record of one invocation of an operation method
operationMethodRecord(operation, args, ret, outcome) ==
    [call |-> "operationMethod", operation |-> operation, args |-> args, ret |-> ret,
     runRequests |-> runRequests(ret, outcome), settled |-> settled(ret, outcome)]

\* a call of an operation method of the client; the runner's promise settles
\* with one of the outcomes
OperationMethodCall(paramsArgs, payloads, configs) ==
    /\ Idle
    /\ initialized
    /\ \E i \in 1..Len(getOperations(definition)), paramsArg \in paramsArgs,
          payload \in payloads, config \in configs, outcome \in RunnerOutcomes :
        /\ last' = operationMethodRecord(getOperations(definition)[i],
                                         <<paramsArg, payload, config>>,
                                         operationMethod(Self, getOperations(definition)[i],
                                                         <<paramsArg, payload, config>>),
                                         outcome)
        /\ UNCHANGED <<inFlight, instancesCreated,
                       kept, inputDocument, document, pendingInits, transformOperationName,
                       definition, initialized, instance, axiosConfigDefaults,
                       defaultServer, baseURLVariables, applyMethodCommonHeaders, runners>>

\* an operation method up to the promise of the runner: the request is
\* resolved and handed to the runner, or the error of resolution rejects the call
OperationMethodStart(paramsArgs) ==
    /\ Idle
    /\ initialized
    /\ inFlight = NoCall
    /\ \E i \in 1..Len(getOperations(definition)), paramsArg \in paramsArgs :
        LET operation == getOperations(definition)[i]
            args == <<paramsArg, Undefined, Undefined>>
            ret == operationMethod(Self, operation, args)
        IN  /\ IF IsThrow(ret)
               THEN /\ last' = operationMethodRecord(operation, args, ret, ret)
                    /\ UNCHANGED inFlight
               ELSE /\ last' = [call |-> "operationMethod", operation |-> operation,
                                args |-> args, pending |-> TRUE]
                    /\ inFlight' = [operation |-> operation, args |-> args, ret |-> ret,
                                    descriptor |->
                                        getRequestConfigForOperation(Self, operation, args)]
            /\ UNCHANGED <<instancesCreated, kept, inputDocument, document, pendingInits,
                           transformOperationName, definition, initialized, instance,
                           axiosConfigDefaults, defaultServer, baseURLVariables,
                           applyMethodCommonHeaders, runners>>

\* mutant: the request is resolved when the runner settles
OperationMethodSettle_lateResolution ==
    /\ Idle
    /\ inFlight # NoCall
    /\ \E outcome \in RunnerOutcomes :
        /\ last' = Put(operationMethodRecord(
                           inFlight.operation, inFlight.args,
                           operationMethod(Self, inFlight.operation, inFlight.args), outcome),
                       "descriptor",
                       getRequestConfigForOperation(Self, inFlight.operation, inFlight.args))
        /\ inFlight' = NoCall
        /\ UNCHANGED <<instancesCreated, kept, inputDocument, document, pendingInits,
                       transformOperationName, definition, initialized, instance,
                       axiosConfigDefaults, defaultServer, baseURLVariables,
                       applyMethodCommonHeaders, runners>>

\* the promise of the runner settles, and with it the operation method
OperationMethodSettle ==
    /\ Idle
    /\ inFlight # NoCall
    /\ \E outcome \in RunnerOutcomes :
        /\ last' = Put(operationMethodRecord(inFlight.operation, inFlight.args,
                                             inFlight.ret, outcome),
                       "descriptor", inFlight.descriptor)
        /\ inFlight' = NoCall
        /\ UNCHANGED <<instancesCreated, kept, inputDocument, document, pendingInits,
                       transformOperationName, definition, initialized, instance,
                       axiosConfigDefaults, defaultServer, baseURLVariables,
                       applyMethodCommonHeaders, runners>>

\* getOperations() by the application
GetOperationsCall ==
    /\ Idle
    /\ last' = [call |-> "getOperations", ret |-> getOperations(definition)]
    /\ UNCHANGED <<inFlight, instancesCreated, kept, inputDocument, document, pendingInits,
                   transformOperationName, definition, initialized, instance,
                   axiosConfigDefaults, defaultServer, baseURLVariables,
                   applyMethodCommonHeaders, runners>>

\* getOperation(operationId) by the application, for the operationIds of the
\* document and for one it does not have
GetOperationCall ==
    /\ Idle
    /\ \E operationId \in {getOperations(definition)[i].operationId :
                                i \in {j \in 1..Len(getOperations(definition)) :
                                        "operationId" \in DOMAIN getOperations(definition)[j]}}
                           \cup {"noSuchOperation"} :
        last' = [call |-> "getOperation", operationId |-> operationId,
                 ret |-> getOperation(definition, operationId)]
    /\ UNCHANGED <<inFlight, instancesCreated, kept, inputDocument, document, pendingInits,
                   transformOperationName, definition, initialized, instance,
                   axiosConfigDefaults, defaultServer, baseURLVariables,
                   applyMethodCommonHeaders, runners>>

\* registerRunner(runner, operationId?) by the application
RegisterRunner ==
    /\ Idle
    /\ \E runner \in Runners, operationId \in RunnerOperationIds :
        /\ runners' = registerRunner(runners, runner, operationId)
        /\ last' = [call |-> "registerRunner", args |-> <<runner, operationId>>]
        /\ UNCHANGED <<inFlight, instancesCreated,
                       kept, inputDocument, document, pendingInits, transformOperationName,
                       definition, initialized, instance, axiosConfigDefaults,
                       defaultServer, baseURLVariables, applyMethodCommonHeaders>>

\* the application sets a default header of the client:
\* client.defaults.headers.common[name] = value
SetDefaultHeader ==
    /\ Idle
    /\ initialized
    /\ \E value \in DefaultHeaderValues :
        /\ instance' = [instance EXCEPT !.defaults.headers.common =
                                            Put(@, "x-petshop-id", value)]
        /\ last' = [call |-> "setDefaultHeader", args |-> <<"x-petshop-id", value>>]
        /\ kept' = NoCall
        /\ UNCHANGED <<inFlight, instancesCreated,
                       inputDocument, document, pendingInits, transformOperationName,
                       definition, initialized, axiosConfigDefaults,
                       defaultServer, baseURLVariables, applyMethodCommonHeaders, runners>>

\* the caller takes the descriptor of the call and holds on to it
Keep ==
    /\ last.call = "getRequestConfigForOperation"
    /\ kept' = last
    /\ last' = NoCall
    /\ UNCHANGED <<inFlight, instancesCreated,
                   inputDocument, document, pendingInits, transformOperationName,
                   definition, initialized, instance, axiosConfigDefaults,
                   defaultServer, baseURLVariables, applyMethodCommonHeaders, runners>>

\* the caller takes the outcome of the call
Return ==
    /\ ~Idle
    /\ last' = NoCall
    /\ UNCHANGED <<inFlight, instancesCreated,
                   kept, inputDocument, document, pendingInits, transformOperationName,
                   definition, initialized, instance, axiosConfigDefaults,
                   defaultServer, baseURLVariables, applyMethodCommonHeaders, runners>>

\* request construction on a client built with the constructor's server defaults
Next ==
    \/ InitSync
    \/ GetRequestConfigForOperationCall(ParamsArgs, Payloads)
    \/ GetAxiosConfigForOperationCall(SmallParamsArgs, Payloads, ConfigOverrides)
    \/ OperationMethodCall(SmallParamsArgs, Payloads, ConfigOverrides)
    \/ Return

Spec == Init /\ [][Next]_vars

\* server selection: every selector and variable table, by constructor option
\* and by withServer
InitServer ==
    Constructor({FixtureDefinition, VariantDefinition, NoServersDefinition},
                {Num(0), [desc |-> "Alternative server"]}, {<<>>}, {FALSE},
                {<<>>, [baseURL |-> Str(<<"http://preset.test">>)]}, {"identity"})

ServerParamsArgs == {Undefined, Num(1)}
ServerConfigOverrides == {Undefined, [baseURL |-> Str(<<"http://override.test">>)]}

NextServer ==
    \/ InitSync
    \/ WithServer(Selectors, VariableTables)
    \/ GetBaseURLCall
    \/ GetRequestConfigForOperationCall(ServerParamsArgs, {Undefined})
    \/ GetAxiosConfigForOperationCall(ServerParamsArgs, {Undefined}, ServerConfigOverrides)
    \/ OperationMethodCall(ServerParamsArgs, {Undefined}, ServerConfigOverrides)
    \/ Return

SpecServer == InitServer /\ [][NextServer]_vars

\* the style and explode settings of a parameter definition, and no definition
SerializerStyles == {"form", "spaceDelimited", "pipeDelimited", "deepObject", "matrix", ""}

SerializerParams ==
    {Undefined, [name |-> "id", in |-> "query"]}
    \cup {[name |-> "id", in |-> "query", style |-> st] : st \in SerializerStyles}
    \cup {[name |-> "id", in |-> "query", explode |-> e] : e \in BOOLEAN}
    \cup {[name |-> "id", in |-> "query", style |-> st, explode |-> e] :
            st \in SerializerStyles, e \in BOOLEAN}

SerializerNames == {"id", "filter", "&"}

SerializerItems == {Num(3), Num(4), Num(5), Str(<<"a", " ", "b">>)}

SerializerObjectEntries ==
    {[key |-> k, value |-> v] :
        k \in {"role", "firstName", "["}, v \in {Str(<<"admin">>), Str(<<"Alex">>), Num(1)}}

SerializerValues ==
    {Undefined, Null, Num(0), Num(3), Str(<<>>), Str(<<"a", " ", "b">>)}
    \cup {Arr(a) : a \in SeqsUpTo(SerializerItems, MaxItems)}
    \cup {Obj(o) : o \in {t \in SeqsUpTo(SerializerObjectEntries, 2) :
                            \A i, j \in 1..Len(t) : i # j => t[i].key # t[j].key}}

\* a call of the exported function serializeQueryParameter
SerializeQueryParameterCallWith(params, names, values) ==
    /\ Idle
    /\ \E param \in params, name \in names, value \in values :
        /\ last' = [call |-> "serializeQueryParameter", param |-> param, name |-> name,
                    value |-> value, ret |-> serializeQueryParameter(param, name, value)]
        /\ UNCHANGED <<inFlight, instancesCreated,
                       kept, inputDocument, document, pendingInits, transformOperationName,
                       definition, initialized, instance, axiosConfigDefaults,
                       defaultServer, baseURLVariables, applyMethodCommonHeaders, runners>>

SerializeQueryParameterCall ==
    SerializeQueryParameterCallWith(SerializerParams, SerializerNames, SerializerValues)

\* the query serializer on its own, for every parameter definition, name and value
InitSerializer == Constructor({FixtureDefinition}, {Num(0)}, {<<>>}, {FALSE}, {<<>>}, {"identity"})

NextSerializer ==
    \/ SerializeQueryParameterCall
    \/ Return

SpecSerializer == InitSerializer /\ [][NextSerializer]_vars

\* the delimited styles on arrays of strings that hold the delimiters
DelimitedParams ==
    {[name |-> "id", in |-> "query", style |-> st, explode |-> FALSE] :
        st \in {"form", "spaceDelimited", "pipeDelimited"}}

DelimitedItems ==
    {Str(<<"a">>), Str(<<"b">>), Str(<<"a", " ", "b">>), Str(<<"a", "|", "b">>),
     Str(<<"a", ",", "b">>)}

DelimitedValues == {Arr(a) : a \in SeqsUpTo(DelimitedItems, MaxStrings) \ {<<>>}}

InitDelimited == Constructor({FixtureDefinition}, {Num(0)}, {<<>>}, {FALSE}, {<<>>}, {"identity"})

NextDelimited ==
    \/ SerializeQueryParameterCallWith(DelimitedParams, {"id", "filter"}, DelimitedValues)
    \/ Return

SpecDelimited == InitDelimited /\ [][NextDelimited]_vars

\* runners: registration for all operations and for single ones, and the
\* invocations of the operation methods
InitRunner == Constructor({FixtureDefinition}, {Num(0)}, {<<>>}, {FALSE}, {<<>>}, {"identity"})

NextRunner ==
    \/ InitSync
    \/ RegisterRunner
    \/ OperationMethodCall(ServerParamsArgs, {Undefined}, {Undefined})
    \/ Return

SpecRunner == InitRunner /\ [][NextRunner]_vars

\* binding: every document and both name transforms, init() and initSync()
BindingDocuments ==
    {FixtureDefinition, VariantDefinition, NoServersDefinition, ReservedNamesDefinition}

InitBindings ==
    Constructor(BindingDocuments, {Num(0)}, {<<>>}, {FALSE}, {<<>>}, OperationNameTransforms)

NextBindings ==
    \/ InitSync
    \/ InitCall
    \/ InitResume
    \/ OperationMethodCall(ServerParamsArgs, {Undefined}, {Undefined})
    \/ Return

SpecBindings == InitBindings /\ [][NextBindings]_vars

\* repeated resolution, with server and default-header changes in between
InitRepeat == Constructor({FixtureDefinition}, {Num(0)}, {<<>>}, {FALSE}, {<<>>}, {"identity"})

NextRepeat ==
    \/ InitSync
    \/ WithServer({Num(0), Num(1)}, {})
    \/ SetDefaultHeader
    \/ GetRequestConfigForOperationCall(SmallParamsArgs, {Undefined})
    \/ Keep
    \/ Return

SpecRepeat == InitRepeat /\ [][NextRepeat]_vars

\* initialization: getClient(), init() and initSync() in every order, on a
\* client whose first server selection may fail
InitClient ==
    Constructor({FixtureDefinition, NoServersDefinition},
                {Num(0), [desc |-> "no such server"]}, {<<>>}, {FALSE}, {<<>>}, {"identity"})

NextClient ==
    \/ GetClientCall
    \/ InitCall
    \/ InitResume
    \/ InitSync
    \/ WithServer({Num(0), [desc |-> "no such server"]}, {})
    \/ GetRequestConfigForOperationCall({Undefined}, {Undefined})
    \/ Return

SpecClient == InitClient /\ [][NextClient]_vars

\* withServer calls between the start and the settlement of an invocation
InterleavedVariableTables ==
    {[foo1 |-> Str(<<"bar1a">>), foo2 |-> Num(0)]}

InitInterleaved ==
    Constructor({FixtureDefinition}, {Num(0), Num(2)}, {<<>>} \cup InterleavedVariableTables,
                {FALSE}, {<<>>}, {"identity"})

NextInterleaved ==
    \/ InitSync
    \/ WithServer({Num(0), Num(1), Num(2)}, InterleavedVariableTables)
    \/ OperationMethodStart({Undefined, Num(1)})
    \/ OperationMethodSettle
    \/ Return

SpecInterleaved == InitInterleaved /\ [][NextInterleaved]_vars

\* the three resolution calls on a client whose servers, runners and default
\* headers have been set by the application
InitFrame ==
    Constructor({FixtureDefinition}, {Num(0)}, {<<>>}, {FALSE}, HeaderDefaults, {"identity"})

NextFrame ==
    \/ InitSync
    \/ WithServer({Num(1), Num(2)}, InterleavedVariableTables)
    \/ RegisterRunner
    \/ SetDefaultHeader
    \/ GetBaseURLCall
    \/ GetRequestConfigForOperationCall(SmallParamsArgs, {[name |-> Str(<<"Garfield">>)]})
    \/ GetAxiosConfigForOperationCall(SmallParamsArgs, {[name |-> Str(<<"Garfield">>)]},
                                      {Undefined, [params |-> [q |-> Str(<<"dog">>)]]})
    \/ Return

SpecFrame == InitFrame /\ [][NextFrame]_vars

\* the operation catalog of every document
CatalogDocuments ==
    BindingDocuments \cup {DuplicateIdsDefinition, AxiosNamesDefinition}

InitCatalog ==
    Constructor(CatalogDocuments, {Num(0)}, {<<>>}, {FALSE}, {<<>>}, {"identity"})

NextCatalog ==
    \/ InitSync
    \/ InitCall
    \/ InitResume
    \/ GetOperationsCall
    \/ GetOperationCall
    \/ OperationMethodCall({Undefined}, {Undefined}, {Undefined})
    \/ Return

SpecCatalog == InitCatalog /\ [][NextCatalog]_vars

----------------------------------------------------------------------------
(* Properties *)

BucketOf(type) ==
    CASE type = ParamType.Path -> "pathParams"
      [] type = ParamType.Query -> "query"
      [] type = ParamType.Header -> "headers"
      [] type = ParamType.Cookie -> "cookies"

Buckets == {"pathParams", "query", "headers", "cookies"}

\* the path item of the document an operation was flattened from
PathItemOf(def, operation) ==
    (CHOOSE p \in {def.paths[i] : i \in 1..Len(def.paths)} : p.path = operation.path).item

\* the declared `in` of a name: the operation's own parameters first, then the
\* path item's, query when neither declares it
DeclaredIn(def, operation, name) ==
    LET item == PathItemOf(def, operation)
        own == IF "parameters" \in DOMAIN item[operation.method]
               THEN item[operation.method].parameters ELSE <<>>
        shared == IF "parameters" \in DOMAIN item THEN item.parameters ELSE <<>>
        ownHits == SelectSeq(own, LAMBDA q : q.name = name)
        sharedHits == SelectSeq(shared, LAMBDA q : q.name = name)
    IN  IF ownHits # <<>> THEN ownHits[1].in
        ELSE IF sharedHits # <<>> THEN sharedHits[1].in
        ELSE ParamType.Query

\* a bucket of a descriptor holds a value under a name, as given or stringified
Holds(desc, bucket, name, value) ==
    /\ name \in DOMAIN desc[bucket]
    /\ desc[bucket][name] \in {value, Str(StringOf(value))}

DeclaredParameters(operation) ==
    IF "parameters" \in DOMAIN operation THEN operation.parameters ELSE <<>>

RequestConfigReturned ==
    last.call = "getRequestConfigForOperation" /\ ~IsThrow(last.ret)

\* C1: a scalar first argument (0 and "" included) is the value of the first
\* required parameter, or of the first declared one, in the bucket of its `in`
C1_ScalarIsFirstParameter ==
    (/\ last.call = "getRequestConfigForOperation"
     /\ IsNum(last.args[1]) \/ IsStr(last.args[1])
     /\ DeclaredParameters(last.operation) # <<>>)
    => LET parameters == DeclaredParameters(last.operation)
           required == SelectSeq(parameters, LAMBDA q : "required" \in DOMAIN q /\ q.required)
           first == IF required # <<>> THEN required[1] ELSE parameters[1]
       IN  /\ ~IsThrow(last.ret)
           /\ Holds(last.ret, BucketOf(first.in), first.name, last.args[1])

\* the parameters a call supplies, as [name, value, type]: every entry of a
\* params array, every key of a params object with a defined value, the scalar
SuppliedParameters(operation, paramsArg) ==
    LET parameters == DeclaredParameters(operation)
    IN  IF IsParamsArray(paramsArg)
        THEN [i \in 1..Len(paramsArg.params) |->
                [name |-> paramsArg.params[i].name, value |-> paramsArg.params[i].value,
                 type |-> IF "in" \in DOMAIN paramsArg.params[i]
                          THEN paramsArg.params[i].in
                          ELSE getParamType(parameters, paramsArg.params[i].name)]]
        ELSE IF IsParamsObject(paramsArg)
        THEN LET defined == SelectSeq(paramsArg.object, LAMBDA e : ~IsUndefined(e.value))
             IN  [i \in 1..Len(defined) |->
                    [name |-> defined[i].name, value |-> defined[i].value,
                     type |-> getParamType(parameters, defined[i].name)]]
        ELSE IF (IsNum(paramsArg) \/ IsStr(paramsArg)) /\ parameters # <<>>
        THEN <<[name |-> getFirstOperationParam(parameters).name, value |-> paramsArg,
                type |-> getFirstOperationParam(parameters).in]>>
        ELSE <<>>

\* C2: every supplied parameter is in exactly one of the four buckets of the
\* descriptor: in the bucket its `in` names, and in no other bucket unless
\* another supplied parameter of the same name went there
C2_EveryParameterInExactlyOneBucket ==
    RequestConfigReturned
    => LET supplied == SuppliedParameters(last.operation, last.args[1])
       IN  \A i \in 1..Len(supplied) :
              /\ Holds(last.ret, BucketOf(supplied[i].type), supplied[i].name, supplied[i].value)
              /\ \A t \in ParamTypes \ {supplied[i].type} :
                    Holds(last.ret, BucketOf(t), supplied[i].name, supplied[i].value)
                    => \E j \in 1..Len(supplied) :
                          supplied[j].name = supplied[i].name /\ supplied[j].type = t

\* the names of params-object keys / array entries given without `in`
NamedWithoutIn(paramsArg) ==
    IF IsParamsArray(paramsArg)
    THEN {paramsArg.params[i].name : i \in {j \in 1..Len(paramsArg.params) :
                                              "in" \notin DOMAIN paramsArg.params[j]}}
    ELSE IF IsParamsObject(paramsArg)
    THEN {paramsArg.object[i].name : i \in {j \in 1..Len(paramsArg.object) :
                                              ~IsUndefined(paramsArg.object[j].value)}}
    ELSE {}

UndefinedKeys(paramsArg) ==
    IF IsParamsObject(paramsArg)
    THEN {paramsArg.object[i].name : i \in {j \in 1..Len(paramsArg.object) :
                                              IsUndefined(paramsArg.object[j].value)}}
    ELSE {}

\* C3: a parameter named without `in` is in the bucket of the first declared
\* parameter of that name, the operation's own parameters before the path
\* item's, and in query when none declares it; a params-object key whose value
\* is undefined is in no bucket and not in the query string
C3_NameLookup ==
    RequestConfigReturned
    => /\ \A name \in NamedWithoutIn(last.args[1]) :
            name \in DOMAIN last.ret[BucketOf(DeclaredIn(definition, last.operation, name))]
       /\ \A name \in UndefinedKeys(last.args[1]) :
            /\ name \notin DOMAIN last.ret.query
            /\ name \notin DOMAIN last.ret.cookies
            /\ name \in DOMAIN last.ret.pathParams
               => last.ret.pathParams[name] = Str(<<"undefined">>)
            /\ name \in DOMAIN last.ret.headers
               => /\ name \in DOMAIN instance.defaults.headers.common
                  /\ last.ret.headers[name] \in {instance.defaults.headers.common[name],
                                                 Get(Get(instance.defaults.headers,
                                                         last.operation.method), name)}
            /\ \A i \in 1..Len(last.ret.queryString.str) : last.ret.queryString.str[i] # name

\* C3 witness: a key declared as cookie by the operation and as path by the
\* path item went to cookies, next to a key with an undefined value
C3_Witness ==
    /\ RequestConfigReturned
    /\ last.operation.method = "get"
    /\ last.operation.path = <<"/pets/", "{", "petId", "}", "/owner">>
    /\ last.args[1] = [object |-> <<[name |-> "petId", value |-> Num(1)],
                                    [name |-> "q", value |-> Undefined]>>]
    /\ last.ret.cookies = [petId |-> Num(1)]
    /\ last.ret.query = <<>>

\* C4: the descriptor has a string in pathParams for every token of the path
\* template and no token is left in the path; a token without a supplied value
\* is "undefined", and the only error of the call is the one for a scalar
\* given to an operation without parameters
C4_PathTokensResolved ==
    last.call = "getRequestConfigForOperation"
    => IF IsThrow(last.ret)
       THEN /\ last.ret = Throw("NoParametersFound")
            /\ IsNum(last.args[1]) \/ IsStr(last.args[1])
            /\ DeclaredParameters(last.operation) = <<>>
       ELSE LET names == bathNames(last.operation.path)
                supplied == SuppliedParameters(last.operation, last.args[1])
            IN  /\ IsStr(last.ret.path)
                /\ \A i \in 1..Len(last.ret.path.str) : last.ret.path.str[i] \notin {"{", "}"}
                /\ \A k \in 1..Len(names) :
                      /\ names[k] \in DOMAIN last.ret.pathParams
                      /\ IsStr(last.ret.pathParams[names[k]])
                      /\ (\A i \in 1..Len(supplied) :
                             ~(supplied[i].name = names[k] /\ supplied[i].type = ParamType.Path))
                         => last.ret.pathParams[names[k]] = Str(<<"undefined">>)

\* C4 witness: getPetById called without parameters
C4_Witness ==
    /\ RequestConfigReturned
    /\ last.operation.path = <<"/pets/", "{", "petId", "}">>
    /\ IsUndefined(last.args[1])
    /\ last.ret.pathParams = [petId |-> Str(<<"undefined">>)]
    /\ last.ret.path = Str(<<"/pets/", "undefined">>)

OverrideOf(args) == IF IsUndefined(args[3]) THEN <<>> ELSE args[3]

\* C5: in the transport config the override config is merged last: params and
\* headers hold every computed key and every override key with the override's
\* value on a shared key; any other field of the override replaces the
\* computed field, and a field the override lacks keeps its computed value
C5_OverrideMergedLast ==
    (last.call = "getAxiosConfigForOperation" /\ ~IsThrow(last.ret))
    => LET request == getRequestConfigForOperation(Self, last.operation, last.args)
           override == OverrideOf(last.args)
           params == IF "params" \in DOMAIN override THEN override.params ELSE <<>>
           headers == IF "headers" \in DOMAIN override THEN override.headers ELSE <<>>
       IN  /\ DOMAIN last.ret.params = DOMAIN request.query \cup DOMAIN params
           /\ \A k \in DOMAIN last.ret.params :
                 last.ret.params[k] = IF k \in DOMAIN params THEN params[k] ELSE request.query[k]
           /\ DOMAIN last.ret.headers = DOMAIN request.headers \cup DOMAIN headers
           /\ \A k \in DOMAIN last.ret.headers :
                 last.ret.headers[k] = IF k \in DOMAIN headers THEN headers[k]
                                       ELSE request.headers[k]
           /\ \A f \in DOMAIN override \ {"params", "headers"} : last.ret[f] = override[f]
           /\ "method" \notin DOMAIN override => last.ret.method = request.method
           /\ "url" \notin DOMAIN override => last.ret.url = request.path
           /\ "data" \notin DOMAIN override => last.ret.data = request.payload

\* C5 witness: an override with a header that is also a default header and a
\* query parameter next to a computed one
C5_Witness ==
    /\ last.call = "getAxiosConfigForOperation"
    /\ ~IsThrow(last.ret)
    /\ last.args[3] = [headers |-> [Accept |-> Str(<<"text/plain">>)],
                       params |-> [extra |-> Num(1)]]
    /\ last.ret.headers.Accept = Str(<<"text/plain">>)
    /\ DOMAIN last.ret.params = {"q", "extra"}
    /\ "x-petshop-id" \in DOMAIN last.ret.headers

\* C6: a header supplied as a parameter of the call wins over a default header
\* of the client with the same key
C6_CallerHeaderWins ==
    RequestConfigReturned
    => LET supplied == SuppliedParameters(last.operation, last.args[1])
       IN  \A i \in 1..Len(supplied) :
              supplied[i].type = ParamType.Header
              => Holds(last.ret, "headers", supplied[i].name, supplied[i].value)

\* C7: the request of an operation method of an operation without servers is
\* sent with the base URL of the server and variables currently set, also
\* when withServer set them after init
C7_WithServerSetsBaseURL ==
    (/\ last.call = "operationMethod"
     /\ ~IsThrow(last.ret)
     /\ "servers" \notin DOMAIN last.operation
     /\ "baseURL" \notin DOMAIN axiosConfigDefaults
     /\ "baseURL" \notin DOMAIN OverrideOf(last.args))
    => last.ret.request.baseURL
         = getBaseURL(definition, defaultServer, baseURLVariables, Undefined)

\* C8: every token of the selected server's URL is replaced by the enum entry
\* at the overriding index, by the overriding string when the enum contains it,
\* by the default when there is no override; an index out of the enum's bounds
\* or a string not in the enum is an error
C8_VariableResolution ==
    (/\ last.call = "getBaseURL"
     /\ IsUndefined(last.operation)
     /\ ~IsUndefined(definition)
     /\ "url" \in DOMAIN selectTargetServer(definition, defaultServer)
     /\ bathNames(selectTargetServer(definition, defaultServer).url) # <<>>)
    => LET server == selectTargetServer(definition, defaultServer)
           names == bathNames(server.url)
           value(name) ==
               LET enum == IF "enum" \in DOMAIN server.variables[name]
                           THEN server.variables[name].enum ELSE <<>>
                   override == Get(baseURLVariables, name)
               IN  IF IsNum(override)
                   THEN IF override.num + 1 \in 1..Len(enum)
                        THEN Str(enum[override.num + 1]) ELSE Throw("error")
                   ELSE IF IsStr(override)
                   THEN IF \E i \in 1..Len(enum) : enum[i] = override.str
                        THEN override ELSE Throw("error")
                   ELSE Str(server.variables[name].default)
       IN  IF \E k \in 1..Len(names) : IsThrow(value(names[k]))
           THEN IsThrow(last.ret)
           ELSE last.ret = bathPath(server.url,
                                    [n \in {names[k] : k \in 1..Len(names)} |-> value(n)])

\* C9: getBaseURL() selects by index, by description or takes the server
\* object; whenever nothing is selected it returns undefined and does not throw
C9_ServerSelection ==
    (last.call = "getBaseURL" /\ IsUndefined(last.operation) /\ ~IsUndefined(definition))
    => LET servers == IF "servers" \in DOMAIN definition THEN definition.servers ELSE <<>>
           described == SelectSeq(servers, LAMBDA s : "description" \in DOMAIN s
                                                      /\ "desc" \in DOMAIN defaultServer
                                                      /\ s.description = defaultServer.desc)
           selected == IF IsNum(defaultServer)
                       THEN IF defaultServer.num + 1 \in 1..Len(servers)
                            THEN servers[defaultServer.num + 1] ELSE Undefined
                       ELSE IF "desc" \in DOMAIN defaultServer
                       THEN IF described # <<>> THEN described[1] ELSE Undefined
                       ELSE defaultServer.server
       IN  IF IsUndefined(selected)
           THEN last.ret = Undefined
           ELSE bathNames(selected.url) = <<>> => last.ret = Str(selected.url)

\* the URL of the first server of an operation: its own servers, then the path
\* item's; Undefined when there is none
FirstServerURL(def, operation) ==
    LET item == PathItemOf(def, operation)
        own == IF "servers" \in DOMAIN item[operation.method]
               THEN item[operation.method].servers ELSE <<>>
        shared == IF "servers" \in DOMAIN item THEN item.servers ELSE <<>>
    IN  IF own \o shared = <<>> THEN Undefined ELSE Str((own \o shared)[1].url)

\* C10 as stated: for an operation with servers the URL of the first one is
\* what getBaseURL(operation) returns and what the transport config carries
C10_OperationServerWins ==
    (/\ last.call \in {"getBaseURL", "getAxiosConfigForOperation", "operationMethod"}
     /\ ~IsUndefined(last.operation)
     /\ ~IsThrow(last.ret))
    => LET url == FirstServerURL(definition, last.operation)
       IN  ~IsUndefined(url)
           => CASE last.call = "getBaseURL" -> last.ret = url
                [] last.call = "getAxiosConfigForOperation" -> last.ret.baseURL = url
                [] OTHER -> last.ret.axiosConfig.baseURL = url

\* C10 amended: ... the transport config carries it unless the override config
\* of the call has a baseURL field of its own, which then replaces it
C10_OperationServerWinsUnlessOverridden ==
    (/\ last.call \in {"getBaseURL", "getAxiosConfigForOperation", "operationMethod"}
     /\ ~IsUndefined(last.operation)
     /\ ~IsThrow(last.ret))
    => LET url == FirstServerURL(definition, last.operation)
           carried == IF last.call = "getBaseURL" THEN url
                      ELSE IF "baseURL" \in DOMAIN OverrideOf(last.args)
                      THEN OverrideOf(last.args).baseURL ELSE url
       IN  ~IsUndefined(url)
           => CASE last.call = "getBaseURL" -> last.ret = carried
                [] last.call = "getAxiosConfigForOperation" -> last.ret.baseURL = carried
                [] OTHER -> last.ret.axiosConfig.baseURL = carried

\* C10 witness: the operation's own server is carried while another default
\* server and a variable table are set
C10_Witness ==
    /\ last.call = "getAxiosConfigForOperation"
    /\ ~IsThrow(last.ret)
    /\ "operationId" \in DOMAIN last.operation
    /\ last.operation.operationId = "getOwnerByPetId"
    /\ IsUndefined(last.args[3])
    /\ defaultServer = Num(1)
    /\ baseURLVariables # <<>>
    /\ last.ret.baseURL = Str(<<"http://op.test">>)

\* the names of a sequence of supplied parameters, each once, in the order of
\* their first occurrence
RECURSIVE FirstOccurrences(_, _)
FirstOccurrences(supplied, seen) ==
    IF supplied = <<>> THEN <<>>
    ELSE IF Head(supplied).name \in seen THEN FirstOccurrences(Tail(supplied), seen)
    ELSE <<Head(supplied).name>>
         \o FirstOccurrences(Tail(supplied), seen \cup {Head(supplied).name})

\* the keys of the query bucket of a call, in insertion order
QueryNames(operation, paramsArg) ==
    FirstOccurrences(SelectSeq(SuppliedParameters(operation, paramsArg),
                               LAMBDA p : p.type = ParamType.Query), {})

\* the declared parameter of a name, Undefined when the name is not declared
DeclaredParameter(operation, name) ==
    LET hits == SelectSeq(DeclaredParameters(operation), LAMBDA q : q.name = name)
    IN  IF hits = <<>> THEN Undefined ELSE hits[1]

\* C11: the queryString of a descriptor is the '&'-join, over the parameters of
\* its query bucket, of the fragments serializeQueryParameter yields for each
\* with its declared style and explode
C11_QueryStringFromSerializer ==
    RequestConfigReturned
    => LET names == QueryNames(last.operation, last.args[1])
       IN  /\ DOMAIN last.ret.query = {names[k] : k \in 1..Len(names)}
           /\ last.ret.queryString =
                Str(JoinStr(Flatten([k \in 1..Len(names) |->
                        serializeQueryParameter(DeclaredParameter(last.operation, names[k]),
                                                names[k], last.ret.query[names[k]])]),
                            <<"&">>))

\* the names a call passes with a null or undefined value
NullishNames(paramsArg) ==
    IF IsParamsObject(paramsArg)
    THEN {paramsArg.object[i].name : i \in {j \in 1..Len(paramsArg.object) :
                IsUndefined(paramsArg.object[j].value) \/ IsNull(paramsArg.object[j].value)}}
    ELSE IF IsParamsArray(paramsArg)
    THEN {paramsArg.params[i].name : i \in {j \in 1..Len(paramsArg.params) :
                IsUndefined(paramsArg.params[j].value) \/ IsNull(paramsArg.params[j].value)}}
    ELSE {}

\* C14: serializeQueryParameter yields no fragment for a null or undefined
\* value under every style and explode setting, and the queryString of a
\* descriptor has no fragment for a parameter passed with such a value
C14_NullishValueNoFragment ==
    /\ \A param \in SerializerParams, name \in SerializerNames, value \in {Null, Undefined} :
          serializeQueryParameter(param, name, value) = <<>>
    /\ RequestConfigReturned
       => \A name \in NullishNames(last.args[1]) :
             \A i \in 1..Len(last.ret.queryString.str) : last.ret.queryString.str[i] # name

\* the style a parameter definition declares, "none" when it declares none
DeclaredStyle(param) ==
    IF IsUndefined(param) \/ "style" \notin DOMAIN param THEN "none" ELSE param.style

\* explode is true or unset
Exploded(param) ==
    IsUndefined(param) \/ "explode" \notin DOMAIN param \/ param.explode

\* name=item1<sep>item2<sep>..., name and items percent-encoded
JoinedFragment(name, items, sep) ==
    encodeURIComponent(<<name>>) \o <<"=">>
    \o JoinStr([i \in 1..Len(items) |-> encodeURIComponent(StringOf(items[i]))], sep)

\* one name=item fragment per item
FragmentPerItem(name, items) ==
    [i \in 1..Len(items) |->
        encodeURIComponent(<<name>>) \o <<"=">> \o encodeURIComponent(StringOf(items[i]))]

\* C12: for an array value serializeQueryParameter yields one name=item
\* fragment per item with form (or no style) and explode true (or unset); the
\* single fragment joined by "," with form and explode false, by %20 with
\* spaceDelimited and explode false, by %7C with pipeDelimited and explode
\* false; the exploded form result for spaceDelimited or pipeDelimited with
\* explode true; nothing for an empty array
C12_ArrayStyles ==
    (last.call = "serializeQueryParameter" /\ IsArr(last.value))
    => LET items == last.value.arr
           style == DeclaredStyle(last.param)
           exploded == Exploded(last.param)
       IN  IF items = <<>> THEN last.ret = <<>>
           ELSE /\ (style \in {"form", "none"} /\ exploded)
                   => last.ret = FragmentPerItem(last.name, items)
                /\ (style \in {"form", "none"} /\ ~exploded)
                   => last.ret = <<JoinedFragment(last.name, items, <<",">>)>>
                /\ (style = "spaceDelimited" /\ ~exploded)
                   => last.ret = <<JoinedFragment(last.name, items, <<"%20">>)>>
                /\ (style = "pipeDelimited" /\ ~exploded)
                   => last.ret = <<JoinedFragment(last.name, items, <<"%7C">>)>>
                /\ (style \in {"spaceDelimited", "pipeDelimited"} /\ exploded)
                   => last.ret = FragmentPerItem(last.name, items)

\* C12 witness: id = [3, 4, 5] with pipeDelimited and explode false
C12_Witness ==
    /\ last.call = "serializeQueryParameter"
    /\ last.param = [name |-> "id", in |-> "query", style |-> "pipeDelimited", explode |-> FALSE]
    /\ last.name = "id"
    /\ last.value = Arr(<<Num(3), Num(4), Num(5)>>)
    /\ last.ret = << <<"id", "=", "3", "%7C", "4", "%7C", "5">> >>

\* key1,value1,key2,value2,... of an object value, percent-encoded
RECURSIVE KeyValueList(_)
KeyValueList(entries) ==
    IF entries = <<>> THEN <<>>
    ELSE encodeURIComponent(<<entries[1].key>>) \o <<",">>
         \o encodeURIComponent(StringOf(entries[1].value))
         \o (IF Len(entries) > 1 THEN <<",">> ELSE <<>>)
         \o KeyValueList(Tail(entries))

\* C13: for an object value serializeQueryParameter yields one name[key]=value
\* fragment per key with deepObject and explode true; one key=value fragment
\* per key, without the parameter name, with form and explode true; the single
\* fragment name=key1,value1,key2,value2,... with form and explode false and
\* with deepObject and explode false; nothing for an empty object
C13_ObjectStyles ==
    (last.call = "serializeQueryParameter" /\ IsObj(last.value))
    => LET entries == last.value.obj
           style == DeclaredStyle(last.param)
           exploded == Exploded(last.param)
       IN  IF entries = <<>> THEN last.ret = <<>>
           ELSE /\ (style = "deepObject" /\ exploded)
                   => last.ret = [i \in 1..Len(entries) |->
                        encodeURIComponent(<<last.name>>) \o <<"[">>
                        \o encodeURIComponent(<<entries[i].key>>) \o <<"]", "=">>
                        \o encodeURIComponent(StringOf(entries[i].value))]
                /\ (style \in {"form", "none"} /\ exploded)
                   => last.ret = [i \in 1..Len(entries) |->
                        encodeURIComponent(<<entries[i].key>>) \o <<"=">>
                        \o encodeURIComponent(StringOf(entries[i].value))]
                /\ (style \in {"form", "none", "deepObject"} /\ ~exploded)
                   => last.ret = <<encodeURIComponent(<<last.name>>) \o <<"=">>
                                   \o KeyValueList(entries)>>

\* C13 witness: filter = {role: 'admin', firstName: 'Alex'} with deepObject
\* and explode true
C13_Witness ==
    /\ last.call = "serializeQueryParameter"
    /\ last.param = [name |-> "id", in |-> "query", style |-> "deepObject", explode |-> TRUE]
    /\ last.name = "filter"
    /\ last.value = Obj(<<[key |-> "role", value |-> Str(<<"admin">>)],
                          [key |-> "firstName", value |-> Str(<<"Alex">>)]>>)
    /\ last.ret = << <<"filter", "[", "role", "]", "=", "admin">>,
                     <<"filter", "[", "firstName", "]", "=", "Alex">> >>

\* C15: the url of a descriptor is the base URL resolved for the operation,
\* then the substituted path, then "?" and the query string exactly when the
\* query string is not empty; without a base URL it is the path and the query
\* string alone
C15_UrlComposition ==
    RequestConfigReturned
    => LET base == getBaseURL(definition, defaultServer, baseURLVariables, last.operation)
           queryString == last.ret.queryString.str
       IN  last.ret.url =
             Str((IF IsUndefined(base) THEN <<>> ELSE StringOf(base))
                 \o last.ret.path.str
                 \o (IF queryString # <<>> THEN <<"?">> \o queryString ELSE <<>>))

\* the runner registered for an operation: the one registered under its
\* operationId, else the one registered for all operations
SelectedRunner(operation) ==
    IF "operationId" \in DOMAIN operation /\ operation.operationId \in DOMAIN runners
    THEN runners[operation.operationId]
    ELSE runners[DefaultRunnerKey]

\* C16: an invocation of an operation method hands the finished transport
\* config to the runner selected for the operation exactly once when resolution
\* succeeds, and to no runner when resolution throws; the caller receives what
\* that one runner call settles with, or the error resolution threw
C16_RunnerCalledOnce ==
    last.call = "operationMethod"
    => LET axiosConfig == getAxiosConfigForOperation(Self, last.operation, last.args)
       IN  IF IsThrow(axiosConfig)
           THEN /\ last.runRequests = <<>>
                /\ last.settled = axiosConfig
           ELSE /\ Len(last.runRequests) = 1
                /\ last.runRequests[1].runner = SelectedRunner(last.operation)
                /\ last.runRequests[1].axiosConfig = axiosConfig
                /\ last.settled = last.runRequests[1].outcome

\* C16 witness: getPetById runs on the runner registered for it while another
\* runner is registered for all operations, and the caller receives its error
C16_Witness ==
    /\ last.call = "operationMethod"
    /\ "operationId" \in DOMAIN last.operation
    /\ last.operation.operationId = "getPetById"
    /\ runners[DefaultRunnerKey] = [kind |-> "custom", id |-> "a"]
    /\ "getPetById" \in DOMAIN runners
    /\ runners.getPetById = [kind |-> "custom", id |-> "b"]
    /\ Len(last.runRequests) = 1
    /\ last.runRequests[1].runner = [kind |-> "custom", id |-> "b"]
    /\ last.settled = Throw("TransportError")

\* C16 witness of the other case: createPet(1) throws and no runner is called
C16_WitnessThrow ==
    /\ last.call = "operationMethod"
    /\ IsThrow(last.ret)
    /\ last.runRequests = <<>>
    /\ last.settled = Throw("NoParametersFound")

\* C17: a scalar first argument (0 and "" included) given to an operation
\* that declares no parameter makes getRequestConfigForOperation throw
C17_ScalarWithoutParametersThrows ==
    (/\ last.call = "getRequestConfigForOperation"
     /\ IsNum(last.args[1]) \/ IsStr(last.args[1])
     /\ DeclaredParameters(last.operation) = <<>>)
    => IsThrow(last.ret)

----------------------------------------------------------------------------
(* Bindings *)

\* the keys of a path item that are HTTP methods
MethodKeys(item) == {m \in DOMAIN item : \E j \in 1..Len(HttpMethod) : HttpMethod[j] = m}

\* the member names the operations of the document ask for
OperationMemberNames ==
    {applyTransformOperationName(transformOperationName, getOperations(definition)[i].operationId) :
        i \in {j \in 1..Len(getOperations(definition)) :
                    "operationId" \in DOMAIN getOperations(definition)[j]}}

\* the named members are bound to their operations
NamedMembersBound(operationIds) ==
    \A i \in 1..Len(getOperations(definition)) :
        LET operation == getOperations(definition)[i]
        IN  ("operationId" \in DOMAIN operation /\ operation.operationId \in operationIds)
            => LET name == applyTransformOperationName(transformOperationName,
                                                       operation.operationId)
               IN  /\ name \in DOMAIN instance.members
                   /\ instance.members[name] = createOperationMethod(operation)

\* the paths dictionary has the method keys of every path, bound to the
\* operation of that path and method, and nothing else
PathsDictionaryBound ==
    /\ "paths" \in DOMAIN instance.members
    /\ "paths" \in DOMAIN instance.members["paths"]
    /\ LET dict == instance.members["paths"].paths
       IN  \A i \in 1..Len(definition.paths) :
            LET path == definition.paths[i].path
                item == definition.paths[i].item
            IN  /\ path \in DOMAIN dict
                /\ DOMAIN dict[path] = MethodKeys(item)
                /\ \A method \in MethodKeys(item) :
                    /\ "operation" \in DOMAIN dict[path][method]
                    /\ dict[path][method].operation.path = path
                    /\ dict[path][method].operation.method = method
                    /\ \A k \in DOMAIN item[method] :
                        k \in DOMAIN dict[path][method].operation
                        /\ (k \notin {"parameters", "servers"}
                            => dict[path][method].operation[k] = item[method][k])

\* the operationIds of the documents
OperationIds == DOMAIN UpperCase

\* C18: after init or initSync every operation with an operationId has a
\* member named transformOperationName(operationId) bound to it, an operation
\* without operationId has no named member, and client.paths[path][method] is
\* bound to the operation of that path and method for the method keys only
C18_OperationBindings ==
    initialized
    => /\ NamedMembersBound(OperationIds)
       /\ DOMAIN instance.members
            = DOMAIN AxiosMembers \cup {"paths", "api"} \cup OperationMemberNames
       /\ PathsDictionaryBound
----------------------------------------------------------------------------
(* Round trip and idempotence *)

\* the operation declares parameters and all of them are path parameters
OnlyPathParameters(operation) ==
    /\ "parameters" \in DOMAIN operation
    /\ operation.parameters # <<>>
    /\ \A i \in 1..Len(operation.parameters) : operation.parameters[i].in = ParamType.Path

\* the last call resolved {name: value} for a declared name of an operation
\* with path parameters only
PathObjectResolved ==
    /\ RequestConfigReturned
    /\ OnlyPathParameters(last.operation)
    /\ IsParamsObject(last.args[1])
    /\ Len(last.args[1].object) = 1
    /\ \E i \in 1..Len(last.operation.parameters) :
            last.operation.parameters[i].name = last.args[1].object[1].name

\* the explicit array [{name, value, in: 'path'}] for the params object {name: value}
ExplicitPathArray(paramsObject) ==
    [params |-> <<[name |-> paramsObject.object[1].name,
                   value |-> paramsObject.object[1].value, in |-> ParamType.Path]>>]

\* C19: for an operation whose declared parameters are all path parameters,
\* {name: value} and [{name, value, in: 'path'}] give the same path and the
\* same pathParams
C19_PathRoundTrip ==
    PathObjectResolved
    => LET explicit == getRequestConfigForOperation(
                            Self, last.operation,
                            <<ExplicitPathArray(last.args[1]), last.args[2], Undefined>>)
       IN  /\ ~IsThrow(explicit)
           /\ explicit.path = last.ret.path
           /\ explicit.pathParams = last.ret.pathParams

\* a string with a space was resolved for the path parameter of such an operation
C19_Witness ==
    /\ PathObjectResolved
    /\ last.args[1].object[1].value = Str(<<"a", " ", "b">>)
    /\ last.ret.pathParams[last.args[1].object[1].name] = Str(<<"a", " ", "b">>)

\* the caller holds the descriptor of an earlier resolution of the operation
\* and the arguments of the last call, and both calls returned
ResolvedTwice ==
    /\ RequestConfigReturned
    /\ kept # NoCall
    /\ ~IsThrow(kept.ret)
    /\ kept.operation = last.operation
    /\ kept.args = last.args

\* C20: resolving the same operation with the same arguments twice, with no
\* withServer call and no change of the default headers in between, returns
\* descriptors that are equal field by field, whatever was resolved in between
C20_Idempotent ==
    ResolvedTwice
    => \A field \in {"method", "url", "path", "pathParams", "query", "queryString",
                     "headers", "cookies", "payload"} :
            last.ret[field] = kept.ret[field]

\* the second resolution, on the alternative server and with a default header
\* set by the application, of a call with a query and a header parameter
C20_Witness ==
    /\ ResolvedTwice
    /\ defaultServer = Num(1)
    /\ Get(instance.defaults.headers.common, "x-petshop-id") = Str(<<"other">>)
    /\ last.operation.operationId = "getPetById"
    /\ IsParamsObject(last.args[1])
----------------------------------------------------------------------------
(* Path parameter values *)

\* C21: every value of the pathParams mapping of a returned descriptor is a
\* string, whichever argument form supplied it and whether or not its name is
\* a token of the path template
C21_PathParamsAreStrings ==
    RequestConfigReturned
    => \A name \in DOMAIN last.ret.pathParams : IsStr(last.ret.pathParams[name])
----------------------------------------------------------------------------
(* Initialization *)

\* the last call returned a client
ClientReturned ==
    /\ last.call \in {"init", "initSync", "getClient"}
    /\ "ret" \in DOMAIN last
    /\ ~IsThrow(last.ret)

\* a getClient() call starts an init() when the client is not initialized and
\* returns the instance otherwise
GetClientStep ==
    (last = NoCall /\ last'.call = "getClient")
    => IF initialized
       THEN last'.ret = instance /\ pendingInits' = pendingInits
       ELSE "ret" \notin DOMAIN last' /\ pendingInits' = pendingInits + 1

\* the client keeps the instance it has
InstanceKept ==
    ~IsUndefined(instance) => (~IsUndefined(instance') /\ instance'.id = instance.id)

\* C22: getClient() runs init() when the client is not initialized and returns
\* the instance otherwise; every client that getClient(), init() or initSync()
\* returns, overlapping calls included, is the instance of the client, and the
\* client never takes another instance
C22_OneClientInstance ==
    /\ [](ClientReturned => (~IsUndefined(instance) /\ last.ret.id = instance.id))
    /\ [][GetClientStep /\ InstanceKept]_vars

\* an init() has returned the client of an initialized client while another
\* init(), started before, is still suspended
C22_Witness ==
    /\ ClientReturned
    /\ last.call = "init"
    /\ pendingInits > 0
    /\ initialized
----------------------------------------------------------------------------
(* withServer and invocations in flight *)

\* the url of a descriptor, resolved with the given selector and variable table
UrlResolvedWith(descriptor, server, variables, operation) ==
    descriptor.url
        = Str(StringOf(getBaseURL(definition, server, variables, operation))
              \o StringOf(descriptor.path)
              \o (IF descriptor.queryString # Str(<<>>)
                  THEN <<"?">> \o StringOf(descriptor.queryString) ELSE <<>>))

\* after withServer the selector and the table are the ones of that call
WithServerApplied ==
    last.call = "withServer"
    => /\ defaultServer = last.args[1]
       /\ baseURLVariables = IF IsUndefined(last.args[2]) THEN <<>> ELSE last.args[2]

\* an invocation that starts resolves its url with the configuration of the client
InvocationStarts ==
    (inFlight = NoCall /\ inFlight' # NoCall)
    => UrlResolvedWith(inFlight'.descriptor, defaultServer, baseURLVariables,
                       inFlight'.operation)

\* whatever happens while an invocation is in flight leaves its request alone
InvocationInFlight ==
    (inFlight # NoCall /\ inFlight' # NoCall) => inFlight' = inFlight

\* an invocation settles with the request it started with
InvocationSettles ==
    (inFlight # NoCall /\ inFlight' = NoCall)
    => /\ last'.descriptor = inFlight.descriptor
       /\ last'.ret = inFlight.ret

\* C23: the url of every invocation is resolved with the selector and the
\* variable table of the constructor or of the most recent withServer call
\* before it (a call without variables empties the table), and a withServer
\* call made while the invocation is in flight does not change its request
C23_OneServerConfiguration ==
    /\ []WithServerApplied
    /\ [][InvocationStarts /\ InvocationInFlight /\ InvocationSettles]_vars

\* an invocation resolved on the server with variables has settled after
\* withServer selected the first server
C23_Witness ==
    /\ last.call = "operationMethod"
    /\ "descriptor" \in DOMAIN last
    /\ defaultServer = Num(0)
    /\ baseURLVariables = <<>>
    /\ last.operation.operationId = "getPets"
    /\ last.descriptor.url = Str(<<"http://", "bar1a", ".localhost:9090/", "bar2a", "/",
                                   "bar3a", "/", "/pets">>)
----------------------------------------------------------------------------
(* Runner registration *)

\* the step is a registerRunner call
RunnerRegistered == last = NoCall /\ last'.call = "registerRunner"

\* the operation has a runner registered under its own operationId
HasOwnRunner(table, operation) ==
    /\ "operationId" \in DOMAIN operation
    /\ operation.operationId \in DOMAIN table \ {DefaultRunnerKey}

\* what a registration does to the runner the calls of one operation use
RegistrationEffect(operation, runner, operationId) ==
    IF IsUndefined(operationId)
    THEN getRunner(runners', operation)
            = IF HasOwnRunner(runners, operation)
              THEN getRunner(runners, operation) ELSE runner
    ELSE IF "operationId" \in DOMAIN operation /\ operation.operationId = operationId.id
    THEN getRunner(runners', operation) = runner
    ELSE getRunner(runners', operation) = getRunner(runners, operation)

\* C24: registerRunner(runner, operationId) makes exactly that operation use
\* the runner, whatever the operationId string is, and registerRunner(runner)
\* sets the runner of the operations without a runner of their own; the latest
\* registration wins
C24_RegistrationScope ==
    [][RunnerRegistered
       => \A i \in 1..Len(getOperations(definition)) :
            RegistrationEffect(getOperations(definition)[i], last'.args[1], last'.args[2])]_vars
----------------------------------------------------------------------------
(* Frame of the resolution calls *)

\* the step is a call of getRequestConfigForOperation, getAxiosConfigForOperation
\* or getBaseURL
ResolutionCalled ==
    /\ last = NoCall
    /\ last'.call \in {"getRequestConfigForOperation", "getAxiosConfigForOperation",
                       "getBaseURL"}

\* C25: getRequestConfigForOperation, getAxiosConfigForOperation and getBaseURL
\* leave the server selector, the variable table, the dereferenced document,
\* the runner table and the default headers of the instance as they were, and
\* the argument tuple with the objects in it as the caller passed it
C25_ResolutionFrame ==
    [][ResolutionCalled
       => /\ defaultServer' = defaultServer
          /\ baseURLVariables' = baseURLVariables
          /\ definition' = definition
          /\ runners' = runners
          /\ instance' = instance
          /\ ("args" \in DOMAIN last' => last'.argsAfter = last'.args)]_vars

\* getAxiosConfigForOperation has returned for a params object and an override
\* config, on a client with a custom runner, the server with variables and a
\* default header set by the application
C25_Witness ==
    /\ last.call = "getAxiosConfigForOperation"
    /\ ~IsThrow(last.ret)
    /\ IsParamsObject(last.args[1])
    /\ ~IsUndefined(last.args[3])
    /\ defaultServer = Num(2)
    /\ baseURLVariables # <<>>
    /\ "getPets" \in DOMAIN runners
    /\ Get(instance.defaults.headers.common, "x-petshop-id") = Str(<<"other">>)
----------------------------------------------------------------------------
(* Operation catalog *)

\* the position of a path in the document, and of a method in HttpMethod
PathIndex(def, path) == CHOOSE i \in 1..Len(def.paths) : def.paths[i].path = path
MethodIndex(method) == CHOOSE j \in 1..Len(HttpMethod) : HttpMethod[j] = method

\* getOperations() has returned the catalog of a loaded document
CatalogReturned ==
    /\ last.call = "getOperations"
    /\ ~IsUndefined(definition)

\* C26: getOperations returns exactly one Operation for every path and every
\* HTTP method key of its path item, carrying that path and method, none for
\* another key, in the path order of the document and within a path in the
\* order get, put, post, patch, delete, options, head, trace
C26_CatalogContents ==
    CatalogReturned
    => /\ \A i \in 1..Len(definition.paths) :
            \A m \in MethodKeys(definition.paths[i].item) :
                Cardinality({k \in 1..Len(last.ret) :
                                /\ last.ret[k].path = definition.paths[i].path
                                /\ last.ret[k].method = m}) = 1
       /\ \A k \in 1..Len(last.ret) :
            \E i \in 1..Len(definition.paths) :
                /\ last.ret[k].path = definition.paths[i].path
                /\ last.ret[k].method \in MethodKeys(definition.paths[i].item)
       /\ \A k, l \in 1..Len(last.ret) :
            k < l
            => \/ PathIndex(definition, last.ret[k].path) < PathIndex(definition, last.ret[l].path)
               \/ /\ last.ret[k].path = last.ret[l].path
                  /\ MethodIndex(last.ret[k].method) < MethodIndex(last.ret[l].method)

\* the catalog of the document with get, trace and head under one path and
\* post and get under another
C26_Witness ==
    /\ CatalogReturned
    /\ definition = DuplicateIdsDefinition
    /\ Len(last.ret) = 5
    /\ last.ret[2].method = "post"
    /\ last.ret[4].method = "head"

\* the list a path item or an operation declares under a key, empty if it has none
Declared(object, key) == IF key \in DOMAIN object THEN object[key] ELSE <<>>

\* C27: in every Operation of getOperations, parameters is the operation's own
\* parameters followed by the path item's, servers is the operation's own
\* servers followed by the path item's, and security is the operation's own
\* when it declares one and the document's otherwise
C27_MergedOperation ==
    CatalogReturned
    => \A k \in 1..Len(last.ret) :
        LET operation == last.ret[k]
            item == definition.paths[PathIndex(definition, operation.path)].item
            own == item[operation.method]
        IN  /\ Declared(operation, "parameters")
                    = Declared(own, "parameters") \o Declared(item, "parameters")
            /\ Declared(operation, "servers")
                    = Declared(own, "servers") \o Declared(item, "servers")
            /\ IF "security" \in DOMAIN own
               THEN "security" \in DOMAIN operation /\ operation.security = own.security
               ELSE IF "security" \in DOMAIN definition
               THEN "security" \in DOMAIN operation
                    /\ operation.security = definition.security
               ELSE "security" \notin DOMAIN operation

\* the catalog of the document in which one operation declares parameters,
\* servers and an empty security next to those of its path item and of the
\* document, and the other operation of the path declares none
C27_Witness ==
    /\ CatalogReturned
    /\ definition = VariantDefinition
    /\ Len(last.ret) = 2
    /\ Len(last.ret[1].parameters) = 3
    /\ Len(last.ret[1].servers) = 2
    /\ last.ret[1].security = <<>>
    /\ last.ret[2].security = <<"apiKey">>

\* getOperation(operationId) has found an operation and the client has an
\* operation method under that name
NamedMethodAndLookup ==
    /\ last.call = "getOperation"
    /\ ~IsUndefined(last.ret)
    /\ initialized
    /\ last.operationId \in DOMAIN instance.members
    /\ "operation" \in DOMAIN instance.members[last.operationId]

\* the first operation of the catalog with the operationId
FirstWithId(operationId) ==
    LET operations == getOperations(definition)
        first == CHOOSE k \in 1..Len(operations) :
                    /\ Get(operations[k], "operationId") = operationId
                    /\ \A j \in 1..(k - 1) : Get(operations[j], "operationId") # operationId
    IN  operations[first]

\* C28: the named method client[operationId] and getOperation(operationId)
\* refer to the same operation, the first one of the catalog with that
\* operationId, also when two operations share it
C28_DuplicateOperationId ==
    NamedMethodAndLookup
    => /\ last.ret = FirstWithId(last.operationId)
       /\ instance.members[last.operationId].operation = last.ret
----------------------------------------------------------------------------
(* Delimited arrays *)

\* the last call serialized a non-empty array of strings with explode false
DelimitedSerialized ==
    /\ last.call = "serializeQueryParameter"
    /\ last.param \in DelimitedParams
    /\ last.value \in DelimitedValues

\* C29: for one name and one style with explode false, different non-empty
\* arrays of strings have different results
C29_DelimitedInjective ==
    DelimitedSerialized
    => \A other \in DelimitedValues :
            other # last.value
            => serializeQueryParameter(last.param, last.name, other) # last.ret
----------------------------------------------------------------------------
(* Members of the axios instance *)

\* an operation method was called, resolved its request and ran on the default runner
DefaultRunnerCalled ==
    /\ last.call = "operationMethod"
    /\ ~IsThrow(last.ret)
    /\ last.ret.runner = [kind |-> "axios"]

\* C30: creating the client replaces no member the axios instance has by an
\* operation method, and every call of an operation method on the default
\* runner reaches the request function of axios once and settles with what it
\* settles with, without entering an operation method again
C30_AxiosMembersKept ==
    /\ initialized
       => \A name \in DOMAIN AxiosMembers : instance.members[name] = AxiosMembers[name]
    /\ DefaultRunnerCalled
       => /\ last.ret.request = axiosRequest(instance, last.ret.axiosConfig)
          /\ Len(last.runRequests) = 1
          /\ last.settled \in RunnerOutcomes
====
